---- MODULE Spec2Model ----
(***************************************************************************)
(* Model of the LED display engine of apps/departure_board/screen:         *)
(* the Component variants (base.py, shapes.py, text.py, crowding.py) and   *)
(* the Screen compositor (screen.py).                                      *)
(*                                                                         *)
(* Strings are sequences of one-character strings.  Colours are tokens.    *)
(* A Python float is a record [hi, lo] holding the integer hi*2^29 + lo,   *)
(* the value in units of 2^-58, with IEEE-754 binary64 rounding (53-bit    *)
(* significand, round to nearest, ties to even) applied by FAdd and        *)
(* FDivOne.                                                                *)
(***************************************************************************)
EXTENDS Integers, Sequences, FiniteSets, TLC

\* ------------------------------------------------------------------ bounds
\* Longest animation duration (frames) handed to set_text.
MaxDuration == 6
\* Cap on BorderComponent._frame (the code's counter is unbounded).
MaxFrame == 2

\* ------------------------------------------------------- program constants
\* Screen(width, height) as constructed by the caller of the model.
ScreenWidth == 4
ScreenHeight == 2
\* TextComponent.__init__: self._animation_duration = 30
DefaultAnimationDuration == 30

None == "None"
\* max_text_length = None
NoMaxLength == -1

\* ------------------------------------------------------------ float model
Limb == 2^29
FZero == [hi |-> 0, lo |-> 0]
FOne == [hi |-> Limb, lo |-> 0]
\* float -1.0 (the initial _last_rendered_progress); only stored, never added.
FMinusOne == [hi |-> -Limb, lo |-> 0]

\* Unit in the last place, in units of 2^-58, of a binary64 value whose
\* integer image has high limb hi (values in [2^-6, 2)).
Ulp(hi) ==
  IF hi >= 2^29 THEN 64
  ELSE IF hi >= 2^28 THEN 32
  ELSE IF hi >= 2^27 THEN 16
  ELSE IF hi >= 2^26 THEN 8
  ELSE IF hi >= 2^25 THEN 4
  ELSE IF hi >= 2^24 THEN 2
  ELSE 1

\* Carry the low limb into the high limb.
FNorm(hi, lo) ==
  IF lo >= Limb THEN [hi |-> hi + 1, lo |-> lo - Limb] ELSE [hi |-> hi, lo |-> lo]

\* Round the exact value hi*2^29 + lo + num/den (0 <= num < den) to binary64.
FRound(hi, lo, num, den) ==
  LET u == Ulp(hi)
      r == lo % u
      base == lo - r
      twice == 2 * (r * den + num)
      up == \/ twice > u * den
            \/ twice = u * den /\ ((base \div u) % 2 = 1)
  IN  FNorm(hi, IF up THEN base + u ELSE base)

\* a + b on binary64 (both operands non-negative).
FAdd(a, b) ==
  LET s == FNorm(a.hi + b.hi, a.lo + b.lo)
  IN  FRound(s.hi, s.lo, 0, 1)

\* 1.0 / d on binary64, for an integer 1 <= d <= 64.
FDivOne(d) ==
  LET hi == Limb \div d
      r1 == Limb % d
      t1 == r1 * 2^15
      q1 == t1 \div d
      r2 == t1 % d
      t2 == r2 * 2^14
      q2 == t2 \div d
      r3 == t2 % d
  IN  FRound(hi, q1 * 2^14 + q2, r3, d)

\* a >= 1.0
FGeOne(a) == a.hi >= Limb

\* a <= b
FLe(a, b) == a.hi < b.hi \/ (a.hi = b.hi /\ a.lo <= b.lo)

\* a < b
FLt(a, b) == ~FLe(b, a)

\* 1 - a on binary64, for 0 <= a <= 1.
FSubFromOne(a) ==
  LET lo == IF a.lo = 0 THEN 0 ELSE Limb - a.lo
      hi == Limb - a.hi - (IF a.lo = 0 THEN 0 ELSE 1)
  IN  FRound(hi, lo, 0, 1)

\* int(a * n) for a binary64 a in [0, 1] and an integer 0 <= n <= 4: the
\* product is rounded to binary64 before int() truncates it, so a product
\* within half an ulp below an integer gives that integer.
IntOfProduct(a, n) ==
  IF a.hi >= Limb THEN n
  ELSE LET low == a.lo * n
           high == a.hi * n + low \div Limb
           whole == high \div Limb
           half_ulp == IF whole = 0 THEN 16 ELSE IF whole = 1 THEN 32 ELSE 64
       IN  IF high % Limb = Limb - 1 /\ Limb - (low % Limb) <= half_ulp
           THEN whole + 1 ELSE whole

\* the float literals the animation renderers compare the progress with
F01 == [hi |-> 53687091, lo |-> 107374184]
F02 == [hi |-> 107374182, lo |-> 214748368]
F08 == [hi |-> 429496729, lo |-> 322122560]
F09 == [hi |-> 483183820, lo |-> 429496736]

\* ------------------------------------------------------------- geometry
\* utils.Region / utils.Position (dataclasses, compared field by field)
Region(x, y, width, height) == [x |-> x, y |-> y, width |-> width, height |-> height]
Position(x, y) == [x |-> x, y |-> y]

Min(a, b) == IF a < b THEN a ELSE b
Max(a, b) == IF a > b THEN a ELSE b

\* ----------------------------------------------------------- components
\* Result of a method call: the object afterwards, whether mark_dirty() was
\* called, and the exception that ended the call ("none" = normal return).
Ret(c, marked, exc) == [c |-> c, marked |-> marked, exc |-> exc]

\* Component.mark_dirty / mark_clean
mark_dirty(c) == [c EXCEPT !.dirty = TRUE]
mark_clean(c) == [c EXCEPT !.dirty = FALSE]

\* Component.set_visible
set_visible(c, visible) ==
  IF c.visible # visible
  THEN Ret(mark_dirty([c EXCEPT !.visible = visible]), TRUE, "none")
  ELSE Ret(c, FALSE, "none")

\* Component.set_region
set_region(c, region) ==
  IF c.region # region
  THEN Ret(mark_dirty([c EXCEPT !.region = region]), TRUE, "none")
  ELSE Ret(c, FALSE, "none")

\* Component.set_background_color
set_background_color(c, color) ==
  IF c.background_color # color
  THEN Ret(mark_dirty([c EXCEPT !.background_color = color]), TRUE, "none")
  ELSE Ret(c, FALSE, "none")

\* self._sync(): no class of the repository defines _sync, so the attribute
\* lookup raises AttributeError and the calling method ends there.
SyncRaises == "AttributeError"

\* ---- SharedArrivals
\* SharedArrivals.set_arrivals
set_arrivals(d, line_id, list) ==
  [n \in DOMAIN d \cup {line_id} |-> IF n = line_id THEN list ELSE d[n]]

\* get_next_arrival returning the head without moving it to the end
GetNextArrivalWithoutRotation(d, line_id) ==
  IF line_id \notin DOMAIN d THEN [arrivals |-> d, returned |-> None, exc |-> "KeyError"]
  ELSE IF d[line_id] = <<>> THEN [arrivals |-> d, returned |-> None, exc |-> "none"]
  ELSE [arrivals |-> d, returned |-> Head(d[line_id]), exc |-> "none"]

\* SharedArrivals.get_next_arrival: the dict afterwards, the value returned
\* and the exception raised
get_next_arrival(d, line_id) ==
  IF line_id \notin DOMAIN d THEN [arrivals |-> d, returned |-> None, exc |-> "KeyError"]
  ELSE LET arrivals_list == d[line_id]
       IN  IF arrivals_list = <<>> THEN [arrivals |-> d, returned |-> None, exc |-> "none"]
           ELSE LET arrival == Head(arrivals_list)
                    popped == Tail(arrivals_list)
                    appended == Append(popped, arrival)
                IN  [arrivals |-> [d EXCEPT ![line_id] = appended],
                     returned |-> arrival, exc |-> "none"]

\* ---- RectangleComponent
RectangleComponent(region) ==
  [kind |-> "rectangle", region |-> region, background_color |-> None,
   visible |-> TRUE, dirty |-> TRUE, color |-> "white", fill |-> TRUE,
   border_width |-> 1, border_color |-> "white"]

rect_set_color(c, color) ==
  IF c.color # color
  THEN Ret(mark_dirty([c EXCEPT !.color = color]), TRUE, "none")
  ELSE Ret(c, FALSE, "none")

rect_set_fill(c, fill) ==
  IF c.fill # fill
  THEN Ret(mark_dirty([c EXCEPT !.fill = fill]), TRUE, "none")
  ELSE Ret(c, FALSE, "none")

\* ---- LineComponent
LineRegion(start, end, width) ==
  Region(Min(start.x, end.x), Min(start.y, end.y),
         Max(start.x, end.x) - Min(start.x, end.x) + width,
         Max(start.y, end.y) - Min(start.y, end.y) + width)

LineComponent(start, end) ==
  [kind |-> "line", region |-> LineRegion(start, end, 1), background_color |-> None,
   visible |-> TRUE, dirty |-> TRUE, start |-> start, end |-> end,
   color |-> "white", width |-> 1]

line_set_color(c, color) ==
  IF c.color # color
  THEN Ret(mark_dirty([c EXCEPT !.color = color]), TRUE, "none")
  ELSE Ret(c, FALSE, "none")

line_set_points(c, start, end) ==
  IF c.start # start \/ c.end # end
  THEN Ret(mark_dirty([c EXCEPT !.start = start, !.end = end,
                                 !.region = LineRegion(start, end, c.width)]),
           TRUE, "none")
  ELSE Ret(c, FALSE, "none")

\* ---- PixelComponent; pixel_data is a sequence of <<rel_x, rel_y, colour>>
PixelComponent(region) ==
  [kind |-> "pixel", region |-> region, background_color |-> None,
   visible |-> TRUE, dirty |-> TRUE, pixel_data |-> <<>>]

\* the list comprehension of set_pixel: entries not at (rel_x, rel_y), in order
RECURSIVE PixelsNotAt(_, _, _)
PixelsNotAt(data, rel_x, rel_y) ==
  IF data = <<>> THEN <<>>
  ELSE LET h == Head(data)
           rest == PixelsNotAt(Tail(data), rel_x, rel_y)
       IN  IF h[1] = rel_x /\ h[2] = rel_y THEN rest ELSE <<h>> \o rest

\* set_pixel appending the entry without removing the one at the coordinate
SetPixelAppending(c, rel_x, rel_y, color) ==
  Ret(mark_dirty([c EXCEPT !.pixel_data =
        Append(c.pixel_data, <<rel_x, rel_y, color>>)]),
      TRUE, "none")

set_pixel(c, rel_x, rel_y, color) ==
  Ret(mark_dirty([c EXCEPT !.pixel_data =
        Append(PixelsNotAt(c.pixel_data, rel_x, rel_y), <<rel_x, rel_y, color>>)]),
      TRUE, "none")

clear_pixels(c) ==
  Ret(mark_dirty([c EXCEPT !.pixel_data = <<>>]), TRUE, "none")

set_pixels(c, pixel_data) ==
  Ret(mark_dirty([c EXCEPT !.pixel_data = pixel_data]), TRUE, "none")

\* ---- BorderComponent
\* BorderComponent._calculate_border_positions: top edge left to right, right
\* edge range(1, h), bottom edge range(w-2, -1, -1), left edge range(h-2, 0, -1)
calculate_border_positions(region) ==
  LET x == region.x
      y == region.y
      w == region.width
      h == region.height
      top == [i \in 1..w |-> <<x + i - 1, y>>]
      right == [i \in 1..(h - 1) |-> <<x + w - 1, y + i>>]
      bottom == [k \in 1..(w - 1) |-> <<x + (w - 1 - k), y + h - 1>>]
      left == [k \in 1..(h - 2) |-> <<x, y + (h - 1 - k)>>]
  IN  top \o right \o bottom \o left

BorderComponent(region, num_dashes, dash_length, speed) ==
  [kind |-> "border", region |-> region, background_color |-> None,
   visible |-> TRUE, dirty |-> TRUE, num_dashes |-> num_dashes,
   dash_length |-> dash_length, dash_gap |-> 2, speed |-> speed, frame |-> 0,
   border_positions |-> calculate_border_positions(region)]

set_speed(c, speed) ==
  IF c.speed # speed
  THEN Ret(mark_dirty([c EXCEPT !.speed = speed]), TRUE, "none")
  ELSE Ret(c, FALSE, "none")

reset_animation(c) ==
  Ret(mark_dirty([c EXCEPT !.frame = 0]), TRUE, "none")

\* ---- TextComponent
Ellipsis == <<".", ".", ".">>

\* AnimationType
AnimationTypes ==
  {"none", "push", "fade", "typewriter", "slide_left", "slide_right",
   "slide_up", "slide_down"}

\* TextComponent._trim_text
trim_text(max_text_length, text) ==
  IF max_text_length = NoMaxLength \/ Len(text) <= max_text_length
  THEN text
  ELSE SubSeq(text, 1, max_text_length) \o Ellipsis

\* TextComponent.__init__
TextComponent(region, text, font, max_text_length) ==
  [kind |-> "text", region |-> region, background_color |-> None,
   visible |-> TRUE, dirty |-> TRUE,
   max_text_length |-> max_text_length,
   text |-> IF max_text_length # NoMaxLength
            THEN trim_text(max_text_length, text) ELSE text,
   font |-> font, color |-> "white", align |-> "left", vertical_align |-> "top",
   animation_type |-> "none", animation_progress |-> FZero,
   animation_duration |-> DefaultAnimationDuration,
   old_text |-> <<>>, new_text |-> <<>>, is_animating |-> FALSE,
   last_rendered_text |-> <<>>, last_rendered_color |-> None,
   last_rendered_progress |-> FMinusOne, needs_clear |-> TRUE,
   animation_timer |-> None]

\* TextComponent.is_animating
is_animating(c) == c.is_animating

\* TextComponent._schedule_next_animation_frame
schedule_next_animation_frame(c) ==
  IF ~c.is_animating THEN c ELSE [c EXCEPT !.animation_timer = "started"]

\* the guard of line 597 left out
SetTextNeverNoOp(c, trimmed_text) == FALSE

\* set_text line 597: the call is a no-op
SetTextIsNoOp(c, trimmed_text) == c.text = trimmed_text /\ ~c.is_animating

\* lines 608-609 left out: the animation in flight is not ended
InstantChangeStillAnimating(c, trimmed_text) ==
  [c EXCEPT !.text = trimmed_text, !.needs_clear = TRUE, !.last_rendered_text = <<>>]

\* set_text lines 606-613: instant change (state before self._sync())
InstantChange(c, trimmed_text) ==
  [c EXCEPT !.text = trimmed_text, !.is_animating = FALSE,
            !.animation_type = "none", !.needs_clear = TRUE,
            !.last_rendered_text = <<>>]

\* an animation in flight resumed instead of replaced: old text and
\* progress kept
StartAnimationResuming(c, trimmed_text, animation, duration) ==
  [c EXCEPT !.old_text = IF c.is_animating THEN c.old_text ELSE c.text,
            !.new_text = trimmed_text,
            !.animation_type = animation,
            !.animation_progress = IF c.is_animating THEN c.animation_progress ELSE FZero,
            !.animation_duration = duration, !.is_animating = TRUE,
            !.needs_clear = TRUE, !.last_rendered_progress = FMinusOne]

\* set_text lines 618-626: start of an animation (state before self._sync())
StartAnimation(c, trimmed_text, animation, duration) ==
  [c EXCEPT !.old_text = c.text, !.new_text = trimmed_text,
            !.animation_type = animation, !.animation_progress = FZero,
            !.animation_duration = duration, !.is_animating = TRUE,
            !.needs_clear = TRUE, !.last_rendered_progress = FMinusOne]

\* TextComponent.set_text
set_text(c, text, animation, duration) ==
  LET trimmed_text == IF c.max_text_length # NoMaxLength
                      THEN trim_text(c.max_text_length, text) ELSE text
      stopped == [c EXCEPT !.animation_timer = None]
  IN  IF SetTextIsNoOp(c, trimmed_text) THEN Ret(c, FALSE, "none")
      ELSE IF animation = None \/ animation = "none"
      THEN Ret(InstantChange(stopped, trimmed_text), FALSE, SyncRaises)
      ELSE LET started == StartAnimation(stopped, trimmed_text, animation, duration)
           IN  IF SyncRaises = "none"
               THEN Ret(schedule_next_animation_frame(started), FALSE, "none")
               ELSE Ret(started, FALSE, SyncRaises)

\* update_animation line 529
AdvanceProgress(c) == FAdd(c.animation_progress, FDivOne(c.animation_duration))

\* the completion without the clamp of line 533
CompleteAnimationUnclamped(c) ==
  [c EXCEPT !.animation_progress = AdvanceProgress(c), !.text = c.new_text,
            !.is_animating = FALSE, !.animation_type = "none",
            !.animation_timer = None, !.last_rendered_text = <<>>,
            !.needs_clear = TRUE]

\* the completion without the reset of the animation type of line 536
CompleteAnimationKeepingType(c) ==
  [c EXCEPT !.animation_progress = FOne, !.text = c.new_text,
            !.is_animating = FALSE,
            !.animation_timer = None, !.last_rendered_text = <<>>,
            !.needs_clear = TRUE]

\* update_animation lines 533-543: the animation completes
CompleteAnimation(c) ==
  [c EXCEPT !.animation_progress = FOne, !.text = c.new_text,
            !.is_animating = FALSE, !.animation_type = "none",
            !.animation_timer = None, !.last_rendered_text = <<>>,
            !.needs_clear = TRUE]

\* TextComponent.update_animation
update_animation(c) ==
  IF ~c.is_animating THEN Ret(c, FALSE, "none")
  ELSE LET progress == AdvanceProgress(c)
       IN  IF FGeOne(progress)
           THEN Ret(CompleteAnimation(c), FALSE, SyncRaises)
           ELSE LET advanced == [c EXCEPT !.animation_progress = progress]
                IN  IF SyncRaises = "none"
                    THEN Ret(schedule_next_animation_frame(advanced), FALSE, "none")
                    ELSE Ret(advanced, FALSE, SyncRaises)

\* TextComponent.set_color
text_set_color(c, color) ==
  IF c.color # color
  THEN Ret([c EXCEPT !.color = color, !.last_rendered_color = None,
                     !.needs_clear = TRUE], FALSE, SyncRaises)
  ELSE Ret(c, FALSE, "none")

\* TextComponent.set_align
text_set_align(c, align) ==
  IF c.align # align
  THEN Ret([c EXCEPT !.align = align, !.needs_clear = TRUE], FALSE, "none")
  ELSE Ret(c, FALSE, "none")

\* TextComponent.set_vertical_align
set_vertical_align(c, vertical_align) ==
  IF c.vertical_align # vertical_align
  THEN Ret([c EXCEPT !.vertical_align = vertical_align, !.needs_clear = TRUE],
           FALSE, SyncRaises)
  ELSE Ret(c, FALSE, "none")

\* TextComponent.render (the object afterwards)
text_render(c) ==
  IF ~c.visible THEN c
  ELSE IF c.is_animating
  THEN [c EXCEPT !.last_rendered_progress = c.animation_progress]
  ELSE [c EXCEPT !.last_rendered_text = c.text, !.last_rendered_color = c.color,
                 !.last_rendered_progress = FMinusOne, !.needs_clear = FALSE,
                 !.dirty = FALSE]

\* ---- CrowdingComponent
DEFAULT_LEVEL_COLORS ==
  [l \in 1..5 |-> CASE l = 1 -> "green" [] l = 2 -> "yellowgreen"
                     [] l = 3 -> "amber" [] l = 4 -> "orange" [] OTHER -> "red"]

\* min(5, value): the clamp without its lower bound
ClampValueNoLowerBound(value) == Min(5, value)

\* max(0, min(5, value))
ClampValue(value) == Max(0, Min(5, value))

\* CrowdingComponent.__init__
CrowdingComponent(region, font, value) ==
  [kind |-> "crowding", region |-> region, background_color |-> None,
   visible |-> TRUE, dirty |-> TRUE, font |-> font, value |-> ClampValue(value),
   level_colors |-> DEFAULT_LEVEL_COLORS, inactive_color |-> "darkgrey",
   spacing |-> 1, align |-> "center", needs_redraw |-> TRUE]

\* CrowdingComponent.set_value
set_value(c, value) ==
  IF c.value # ClampValue(value)
  THEN Ret(mark_dirty([c EXCEPT !.value = ClampValue(value), !.needs_redraw = TRUE]),
           TRUE, SyncRaises)
  ELSE Ret(c, FALSE, "none")

\* CrowdingComponent.set_level_color
set_level_color(c, level, color) ==
  IF 1 <= level /\ level <= 5
  THEN Ret(mark_dirty([c EXCEPT !.level_colors[level] = color, !.needs_redraw = TRUE]),
           TRUE, SyncRaises)
  ELSE Ret(c, FALSE, "none")

\* CrowdingComponent.set_level_colors
set_level_colors(c, level_colors) ==
  Ret(mark_dirty([c EXCEPT !.level_colors = level_colors, !.needs_redraw = TRUE]),
      TRUE, SyncRaises)

\* CrowdingComponent.set_inactive_color
set_inactive_color(c, color) ==
  IF c.inactive_color # color
  THEN Ret(mark_dirty([c EXCEPT !.inactive_color = color, !.needs_redraw = TRUE]),
           TRUE, SyncRaises)
  ELSE Ret(c, FALSE, "none")

\* CrowdingComponent.set_align
crowding_set_align(c, align) ==
  IF c.align # align
  THEN Ret(mark_dirty([c EXCEPT !.align = align, !.needs_redraw = TRUE]),
           TRUE, SyncRaises)
  ELSE Ret(c, FALSE, "none")

\* CrowdingComponent._get_active_color
get_active_color(c) ==
  IF c.value = 0 THEN c.inactive_color ELSE c.level_colors[c.value]

\* CrowdingComponent.render (the object afterwards)
crowding_render(c) ==
  IF ~c.visible THEN c
  ELSE IF ~c.font THEN c
  ELSE [c EXCEPT !.needs_redraw = FALSE, !.dirty = FALSE]

\* BorderComponent.render (the object afterwards); with an empty perimeter
\* list the method returns before the frame counter is incremented.
border_render(c) ==
  IF ~c.visible THEN c
  ELSE IF c.border_positions = <<>> THEN c
  ELSE [c EXCEPT !.frame = c.frame + 1]

\* ---- dispatch on the variant
\* is_dirty() without the overrides of the animated variants
IsDirtyNotOverridden(c) ==
  CASE c.kind = "text" -> c.needs_clear
    [] c.kind = "border" -> c.dirty
    [] c.kind = "crowding" -> c.needs_redraw \/ c.dirty
    [] OTHER -> c.dirty

\* component.is_dirty()
is_dirty(c) ==
  CASE c.kind = "text" -> IF c.is_animating THEN TRUE ELSE c.needs_clear
    [] c.kind = "border" -> TRUE
    [] c.kind = "crowding" -> c.needs_redraw \/ c.dirty
    [] OTHER -> c.dirty

\* component.render(canvas): the object afterwards
render(c) ==
  CASE c.kind = "text" -> text_render(c)
    [] c.kind = "crowding" -> crowding_render(c)
    [] c.kind = "border" -> border_render(c)
    [] OTHER -> c

\* What render() leaves on the canvas inside the component's footprint, as
\* a function of the object's state after the call: the region, the colour
\* the region is cleared to (None = region not cleared) and the foreground.
Shown(c) ==
  CASE c.kind = "rectangle" ->
         [region |-> c.region, bg |-> c.background_color,
          ink |-> [rect_color |-> c.color, fill |-> c.fill]]
    [] c.kind = "line" ->
         [region |-> c.region, bg |-> c.background_color,
          ink |-> [start |-> c.start, end |-> c.end, line_color |-> c.color,
                   width |-> c.width]]
    [] c.kind = "pixel" ->
         [region |-> c.region, bg |-> c.background_color,
          ink |-> [pixel_data |-> c.pixel_data]]
    [] c.kind = "border" ->
         [region |-> c.region, bg |-> c.background_color,
          ink |-> [frame |-> c.frame, speed |-> c.speed,
                   border_positions |-> c.border_positions]]
    [] c.kind = "text" ->
         [region |-> c.region,
          bg |-> IF c.background_color = None THEN "black" ELSE c.background_color,
          ink |-> IF ~c.font THEN [nothing |-> TRUE]
                  ELSE IF c.is_animating
                  THEN [animation_type |-> c.animation_type,
                        progress |-> c.animation_progress,
                        old_text |-> c.old_text, new_text |-> c.new_text,
                        text_color |-> c.color, align |-> c.align,
                        vertical_align |-> c.vertical_align]
                  ELSE IF c.text = <<>> THEN [nothing |-> TRUE]
                  ELSE [text |-> c.text, text_color |-> c.color, align |-> c.align,
                        vertical_align |-> c.vertical_align]]
    [] OTHER ->
         [region |-> c.region,
          bg |-> IF c.background_color = None THEN "black" ELSE c.background_color,
          ink |-> IF ~c.font THEN [nothing |-> TRUE]
                  ELSE [value |-> c.value, active_color |-> get_active_color(c),
                        inactive_color |-> c.inactive_color, spacing |-> c.spacing,
                        align |-> c.align]]

\* ------------------------------------------------------------- drawing
\* What a method hands to the canvas: the sequence of SetPixel calls
\* <<x, y, colour>> in program order. The canvas drops a call whose
\* coordinate lies outside the panel.

\* for y in range(region.y, region.y + region.height):
\*     for x in range(region.x, region.x + region.width): ... (x, y)
Cells(region) ==
  IF region.width <= 0 \/ region.height <= 0 THEN <<>>
  ELSE [k \in 1..(region.width * region.height) |->
          <<region.x + ((k - 1) % region.width),
            region.y + ((k - 1) \div region.width)>>]

\* the loop above with canvas.SetPixel(x, y, *color)
FillRegion(region, color) ==
  LET cells == Cells(region)
  IN  [k \in 1..Len(cells) |-> <<cells[k][1], cells[k][2], color>>]

\* Region.contains
contains(region, x, y) ==
  /\ region.x <= x /\ x < region.x + region.width
  /\ region.y <= y /\ y < region.y + region.height

\* the writes of a sequence that land inside region
InRegion(writes, region) ==
  SelectSeq(writes, LAMBDA w : contains(region, w[1], w[2]))

\* the background loop shared by Rectangle, Line, PixelSet and Border
DrawBackground(c) ==
  IF c.background_color # None THEN FillRegion(c.region, c.background_color)
  ELSE <<>>

\* the clear loop of Text and Crowding: background colour, else black
ClearRegion(c) ==
  FillRegion(c.region,
             IF c.background_color # None THEN c.background_color ELSE "black")

\* ---- the font (an object of the graphics library): every glyph, the
\* crowding icon included, is FontWidth wide and FontHeight high with all
\* of its pixels set; the baseline lies FontBaseline rows below the top.
FontWidth == 1
FontHeight == 1
FontBaseline == 1

\* sum(font.CharacterWidth(ord(c)) for c in text)
TextWidth(text) == Len(text) * FontWidth

\* graphics.DrawText(canvas, font, x, y, color, text): the set pixels of the
\* text bitmap, row by row, the bitmap's top row at y - baseline
DrawText(x, y, color, text) ==
  LET text_map == Cells(Region(0, 0, TextWidth(text), FontHeight))
  IN  [k \in 1..Len(text_map) |->
         <<x + text_map[k][1], y + text_map[k][2] - FontBaseline, color>>]

\* TextComponent._get_font_baseline / CrowdingComponent._get_font_baseline
get_font_baseline(c) == IF ~c.font THEN 0 ELSE FontBaseline

\* TextComponent._calculate_text_position_for_text
calculate_text_position_for_text(c, text) ==
  IF ~c.font \/ text = <<>> THEN Position(c.region.x, c.region.y)
  ELSE LET text_width == TextWidth(text)
           text_x ==
             CASE c.align = "center" ->
                    Max(c.region.x, c.region.x + ((c.region.width - text_width) \div 2))
               [] c.align = "right" ->
                    Max(c.region.x, c.region.x + c.region.width - text_width)
               [] OTHER -> c.region.x
           baseline == get_font_baseline(c)
           text_y ==
             CASE c.vertical_align = "top" -> c.region.y + baseline
               [] c.vertical_align = "center" ->
                    c.region.y + ((c.region.height - FontHeight) \div 2) + baseline
               [] c.vertical_align = "bottom" ->
                    c.region.y + c.region.height - FontHeight + baseline
               [] OTHER -> c.region.y
       IN  Position(text_x, text_y)

\* TextComponent._calculate_text_position
calculate_text_position(c) ==
  calculate_text_position_for_text(c, IF c.is_animating THEN c.new_text ELSE c.text)

\* TextComponent._apply_alpha: the colour scaled by the factor alpha, named
\* by the expression that computes it
apply_alpha(color, alpha) == color \o "*" \o alpha

\* _render_static drawing the text whether or not a font is loaded
RenderStaticWithoutFontCheck(c) ==
  IF c.text = <<>> THEN <<>>
  ELSE LET pos == calculate_text_position(c)
       IN  DrawText(pos.x, pos.y, c.color, c.text)

\* TextComponent._render_static
render_static(c) ==
  IF c.text = <<>> THEN <<>>
  ELSE IF ~c.font THEN <<>>
  ELSE LET pos == calculate_text_position(c)
       IN  DrawText(pos.x, pos.y, c.color, c.text)

\* TextComponent._draw_text_clipped; bdf_font: the font has the attribute
\* bdf_font (the emulator's font) or not (the panel's). The except branch
\* is not modelled: the bitmap calls of the try block do not raise.
draw_text_clipped(c, bdf_font, x, y, color, text) ==
  IF ~c.font \/ text = <<>> THEN <<>>
  ELSE LET text_top == y - get_font_baseline(c)
           text_bottom == text_top + FontHeight
           text_width == TextWidth(text)
       IN  IF \/ x + text_width < c.region.x
              \/ x > c.region.x + c.region.width
              \/ text_bottom < c.region.y
              \/ text_top > c.region.y + c.region.height
           THEN <<>>
           ELSE IF bdf_font
           THEN InRegion(DrawText(x, y, color, text), c.region)
           ELSE IF /\ x >= c.region.x
                   /\ x + text_width <= c.region.x + c.region.width
                   /\ text_top >= c.region.y
                   /\ text_bottom <= c.region.y + c.region.height
           THEN DrawText(x, y, color, text)
           ELSE <<>>

\* TextComponent._render_push_animation
render_push_animation(c, bdf_font) ==
  IF ~c.font THEN <<>>
  ELSE LET progress == c.animation_progress
           new_width == TextWidth(c.new_text)
           base_old == calculate_text_position_for_text(c, c.old_text)
           base_new == calculate_text_position_for_text(c, c.new_text)
           text_y == base_old.y
           old_x == IF c.align = "right"
                    THEN base_old.x + IntOfProduct(FSubFromOne(progress), c.region.width)
                    ELSE base_old.x - IntOfProduct(progress, c.region.width)
           new_x == IF c.align = "right"
                    THEN base_new.x - new_width + IntOfProduct(progress, c.region.width)
                    ELSE base_new.x - IntOfProduct(FSubFromOne(progress), c.region.width)
       IN  (IF c.old_text # <<>> /\ FLt(progress, F08)
            THEN draw_text_clipped(c, bdf_font, old_x, text_y,
                                   apply_alpha(c.color, "old_alpha"), c.old_text)
            ELSE <<>>)
           \o
           (IF c.new_text # <<>> /\ FLt(F02, progress)
            THEN draw_text_clipped(c, bdf_font, new_x, text_y,
                                   apply_alpha(c.color, "new_alpha"), c.new_text)
            ELSE <<>>)

\* TextComponent._render_fade_animation
render_fade_animation(c, bdf_font) ==
  IF ~c.font \/ c.new_text = <<>> THEN <<>>
  ELSE LET pos == calculate_text_position_for_text(c, c.new_text)
       IN  draw_text_clipped(c, bdf_font, pos.x, pos.y,
                             apply_alpha(c.color, "progress"), c.new_text)

\* TextComponent._render_typewriter_animation
render_typewriter_animation(c, bdf_font) ==
  IF ~c.font \/ c.new_text = <<>> THEN <<>>
  ELSE LET num_chars == IntOfProduct(c.animation_progress, Len(c.new_text))
           display_text == SubSeq(c.new_text, 1, num_chars)
           pos == calculate_text_position_for_text(c, display_text)
       IN  IF display_text # <<>>
           THEN draw_text_clipped(c, bdf_font, pos.x, pos.y, c.color, display_text)
           ELSE <<>>

\* TextComponent._render_slide_animation
render_slide_animation(c, bdf_font) ==
  IF ~c.font THEN <<>>
  ELSE LET progress == c.animation_progress
           rest == FSubFromOne(progress)
           base_old == calculate_text_position_for_text(c, c.old_text)
           base_new == calculate_text_position_for_text(c, c.new_text)
           text_y == base_old.y
           slide_distance == Max(c.region.height, FontHeight)
           new_offset_x ==
             CASE c.animation_type = "slide_left" -> IntOfProduct(rest, c.region.width)
               [] c.animation_type = "slide_right" -> -IntOfProduct(rest, c.region.width)
               [] OTHER -> 0
           old_offset_x ==
             CASE c.animation_type = "slide_left" -> -IntOfProduct(progress, c.region.width)
               [] c.animation_type = "slide_right" -> IntOfProduct(progress, c.region.width)
               [] OTHER -> 0
           new_offset_y ==
             CASE c.animation_type = "slide_up" -> -IntOfProduct(rest, slide_distance)
               [] c.animation_type = "slide_down" -> IntOfProduct(rest, slide_distance)
               [] OTHER -> 0
           old_offset_y ==
             CASE c.animation_type = "slide_up" -> IntOfProduct(progress, slide_distance)
               [] c.animation_type = "slide_down" -> -IntOfProduct(progress, slide_distance)
               [] OTHER -> 0
           sideways == c.animation_type \in {"slide_left", "slide_right"}
           old_x == IF sideways THEN base_old.x + old_offset_x ELSE base_old.x
           new_x == IF sideways THEN base_new.x + new_offset_x ELSE base_new.x
           old_y == IF sideways THEN text_y ELSE text_y + old_offset_y
           new_y == IF sideways THEN text_y ELSE text_y + new_offset_y
       IN  (IF c.old_text # <<>> /\ FLt(progress, F09)
            THEN draw_text_clipped(c, bdf_font, old_x, old_y,
                                   apply_alpha(c.color, "old_alpha"), c.old_text)
            ELSE <<>>)
           \o
           (IF c.new_text # <<>> /\ FLt(F01, progress)
            THEN draw_text_clipped(c, bdf_font, new_x, new_y,
                                   apply_alpha(c.color, "new_alpha"), c.new_text)
            ELSE <<>>)

\* TextComponent._render_animated
render_animated(c, bdf_font) ==
  CASE c.animation_type = "push" -> render_push_animation(c, bdf_font)
    [] c.animation_type = "fade" -> render_fade_animation(c, bdf_font)
    [] c.animation_type = "typewriter" -> render_typewriter_animation(c, bdf_font)
    [] c.animation_type \in {"slide_left", "slide_right", "slide_up", "slide_down"} ->
         render_slide_animation(c, bdf_font)
    [] OTHER -> render_static(c)

\* TextComponent.render: the SetPixel calls it makes
text_render_writes(c, bdf_font) ==
  IF ~c.visible THEN <<>>
  ELSE IF c.is_animating THEN ClearRegion(c) \o render_animated(c, bdf_font)
  ELSE ClearRegion(c) \o render_static(c)

\* the concatenation of a sequence of sequences
RECURSIVE Flatten(_)
Flatten(seqs) ==
  IF seqs = <<>> THEN <<>> ELSE Head(seqs) \o Flatten(Tail(seqs))

\* ---- RectangleComponent
\* RectangleComponent._draw_border
draw_border(c) ==
  LET r == c.region
      bw == c.border_width
      color == c.border_color
      rows ==
        IF r.width <= 0 \/ bw <= 0 THEN <<>>
        ELSE [k \in 1..(r.width * bw) |->
                LET x == r.x + ((k - 1) \div bw)
                    w == (k - 1) % bw
                IN  (IF r.y + w < r.y + r.height THEN <<(<<x, r.y + w, color>>)>> ELSE <<>>)
                    \o (IF r.y + r.height - 1 - w >= r.y
                        THEN <<(<<x, r.y + r.height - 1 - w, color>>)>> ELSE <<>>)]
      columns ==
        IF r.height <= 0 \/ bw <= 0 THEN <<>>
        ELSE [k \in 1..(r.height * bw) |->
                LET y == r.y + ((k - 1) \div bw)
                    w == (k - 1) % bw
                IN  (IF r.x + w < r.x + r.width THEN <<(<<r.x + w, y, color>>)>> ELSE <<>>)
                    \o (IF r.x + r.width - 1 - w >= r.x
                        THEN <<(<<r.x + r.width - 1 - w, y, color>>)>> ELSE <<>>)]
  IN  Flatten(rows) \o Flatten(columns)

\* RectangleComponent.render
rectangle_render_writes(c) ==
  IF ~c.visible THEN <<>>
  ELSE DrawBackground(c)
       \o (IF c.fill
           THEN FillRegion(c.region, c.color)
                \o (IF c.border_color # c.color THEN draw_border(c) ELSE <<>>)
           ELSE draw_border(c))

\* one edge of RectangleComponent._get_component_pixels: for each of count
\* positions along the edge and each strip w, the pixel At(position, w) when
\* Kept(w)
EdgePixels(count, bw, At(_, _), Kept(_)) ==
  IF count <= 0 \/ bw <= 0 THEN <<>>
  ELSE Flatten([k \in 1..(count * bw) |->
                  LET i == (k - 1) \div bw
                      w == (k - 1) % bw
                  IN  IF Kept(w) THEN <<At(i, w)>> ELSE <<>>])

\* RectangleComponent._get_component_pixels
rectangle_get_component_pixels(c) ==
  LET r == c.region
      bw == c.border_width
      color == c.border_color
  IN  (IF c.fill THEN FillRegion(r, c.color) ELSE <<>>)
      \o (IF ~c.fill \/ c.border_color # c.color
          THEN EdgePixels(r.width, bw, LAMBDA i, w : <<r.x + i, r.y + w, color>>,
                          LAMBDA w : r.y + w < r.y + r.height)
               \o EdgePixels(r.width, bw,
                             LAMBDA i, w : <<r.x + i, r.y + r.height - 1 - w, color>>,
                             LAMBDA w : r.y + r.height - 1 - w >= r.y)
               \o EdgePixels(r.height, bw, LAMBDA i, w : <<r.x + w, r.y + i, color>>,
                             LAMBDA w : r.x + w < r.x + r.width)
               \o EdgePixels(r.height, bw,
                             LAMBDA i, w : <<r.x + r.width - 1 - w, r.y + i, color>>,
                             LAMBDA w : r.x + r.width - 1 - w >= r.x)
          ELSE <<>>)

\* ---- LineComponent
\* the points the Bresenham loop of _draw_line visits, from (x, y) to (x1, y1)
\* the loop without the pixel of its first iteration
RECURSIVE LinePointsAfterFirstStep(_, _, _, _, _, _, _, _, _)
LinePointsAfterFirstStep(x, y, x1, y1, dx, dy, sx, sy, err) ==
  IF x = x1 /\ y = y1 THEN <<>>
  ELSE LET e2 == 2 * err
           stepx == e2 > -dy
           stepy == e2 < dx
           nx == IF stepx THEN x + sx ELSE x
           ny == IF stepy THEN y + sy ELSE y
       IN  <<(<<nx, ny>>)>>
           \o LinePointsAfterFirstStep(nx, ny, x1, y1, dx, dy, sx, sy,
                 err - (IF stepx THEN dy ELSE 0) + (IF stepy THEN dx ELSE 0))

RECURSIVE LinePoints(_, _, _, _, _, _, _, _, _)
LinePoints(x, y, x1, y1, dx, dy, sx, sy, err) ==
  IF x = x1 /\ y = y1 THEN <<(<<x, y>>)>>
  ELSE LET e2 == 2 * err
           stepx == e2 > -dy
           stepy == e2 < dx
       IN  <<(<<x, y>>)>>
           \o LinePoints(IF stepx THEN x + sx ELSE x, IF stepy THEN y + sy ELSE y,
                         x1, y1, dx, dy, sx, sy,
                         err - (IF stepx THEN dy ELSE 0) + (IF stepy THEN dx ELSE 0))

Abs(n) == IF n < 0 THEN -n ELSE n

\* LineComponent._draw_line (and the same loop of _get_component_pixels)
draw_line(c) ==
  LET dx == Abs(c.end.x - c.start.x)
      dy == Abs(c.end.y - c.start.y)
      sx == IF c.start.x < c.end.x THEN 1 ELSE -1
      sy == IF c.start.y < c.end.y THEN 1 ELSE -1
      points == LinePoints(c.start.x, c.start.y, c.end.x, c.end.y,
                           dx, dy, sx, sy, dx - dy)
      brush == Cells(Region(0, 0, c.width, c.width))
      stamp(p) == [k \in 1..Len(brush) |->
                     <<p[1] + brush[k][2] - (c.width \div 2),
                       p[2] + brush[k][1] - (c.width \div 2), c.color>>]
  IN  InRegion(Flatten([k \in 1..Len(points) |-> stamp(points[k])]), c.region)

\* LineComponent.render
line_render_writes(c) ==
  IF ~c.visible THEN <<>> ELSE DrawBackground(c) \o draw_line(c)

\* ---- PixelComponent
\* the loop over pixel_data of render and of _get_component_pixels
pixel_get_component_pixels(c) ==
  InRegion([k \in 1..Len(c.pixel_data) |->
              <<c.region.x + c.pixel_data[k][1], c.region.y + c.pixel_data[k][2],
                c.pixel_data[k][3]>>],
           c.region)

\* PixelComponent.render
pixel_render_writes(c) ==
  IF ~c.visible THEN <<>> ELSE DrawBackground(c) \o pixel_get_component_pixels(c)

\* ---- BorderComponent
\* BorderComponent._get_rainbow_color of the position computed for pixel i of
\* dash dash_idx when frame * speed is turn: the colour, named by its inputs
get_rainbow_color(dash_idx, i, turn) ==
  "rainbow(" \o ToString(dash_idx) \o "," \o ToString(i) \o "," \o ToString(turn) \o ")"

\* the start of a dash computed from the frame counter alone, without speed
DashStartIgnoringSpeed(c, frame, dash_idx) ==
  LET perimeter_length == Len(c.border_positions)
      offset == frame % perimeter_length
  IN  (offset + dash_idx * (perimeter_length \div c.num_dashes)) % perimeter_length

\* (int(offset) + dash_idx * (perimeter_length // num_dashes)) % perimeter_length
DashStart(c, frame, dash_idx) ==
  LET perimeter_length == Len(c.border_positions)
      offset == (frame * c.speed) % perimeter_length
  IN  (offset + dash_idx * (perimeter_length \div c.num_dashes)) % perimeter_length

\* the dash loop of render and of _get_component_pixels at frame counter frame
DrawDashes(c, frame) ==
  LET perimeter_length == Len(c.border_positions)
  IN  IF c.num_dashes <= 0 \/ c.dash_length <= 0 THEN <<>>
      ELSE [k \in 1..(c.num_dashes * c.dash_length) |->
              LET dash_idx == (k - 1) \div c.dash_length
                  i == (k - 1) % c.dash_length
                  pos_idx == (DashStart(c, frame, dash_idx) + i) % perimeter_length
                  pos == c.border_positions[pos_idx + 1]
              IN  <<pos[1], pos[2], get_rainbow_color(dash_idx, i, frame * c.speed)>>]

\* BorderComponent.render: the SetPixel calls it makes
border_render_writes(c) ==
  IF ~c.visible THEN <<>>
  ELSE IF c.border_positions = <<>> THEN DrawBackground(c)
  ELSE DrawBackground(c)
       \o [k \in 1..Len(c.border_positions) |->
             <<c.border_positions[k][1], c.border_positions[k][2], "black">>]
       \o DrawDashes(c, c.frame + 1)

\* BorderComponent._get_component_pixels
border_get_component_pixels(c) ==
  IF c.border_positions = <<>> THEN <<>> ELSE DrawDashes(c, c.frame)

\* ---- CrowdingComponent
\* CrowdingComponent._get_icon_width
get_icon_width(c) == IF c.font THEN FontWidth ELSE 5

\* CrowdingComponent._calculate_start_position
calculate_start_position(c) ==
  LET total_width == get_icon_width(c) * 5 + c.spacing * 4
      x == CASE c.align = "center" ->
                  c.region.x + ((c.region.width - total_width) \div 2)
             [] c.align = "right" -> c.region.x + c.region.width - total_width
             [] OTHER -> c.region.x
      font_height == IF c.font THEN FontHeight ELSE 8
      y == c.region.y + ((c.region.height - font_height) \div 2) + get_font_baseline(c)
  IN  Position(x, y)

\* the loop over the five icons with icon_index < value as its test
IconsLessThanValue(c) ==
  LET start == calculate_start_position(c)
  IN  [icon_index \in 1..5 |->
         [x |-> start.x + (icon_index - 1) * (get_icon_width(c) + c.spacing),
          y |-> start.y,
          color |-> IF icon_index < c.value THEN get_active_color(c)
                    ELSE c.inactive_color]]

\* the loop over the five icons of render and of _get_component_pixels:
\* where each icon is drawn and in which colour
Icons(c) ==
  LET start == calculate_start_position(c)
  IN  [icon_index \in 1..5 |->
         [x |-> start.x + (icon_index - 1) * (get_icon_width(c) + c.spacing),
          y |-> start.y,
          color |-> IF icon_index <= c.value THEN get_active_color(c)
                    ELSE c.inactive_color]]

\* CrowdingComponent.ICON_CHAR as a text
ICON_CHAR == <<"icon">>

\* CrowdingComponent.render: the SetPixel calls it makes
crowding_render_writes(c) ==
  IF ~c.visible THEN <<>>
  ELSE IF ~c.font THEN ClearRegion(c)
  ELSE LET icons == Icons(c)
       IN  ClearRegion(c)
           \o Flatten([i \in 1..5 |->
                         DrawText(icons[i].x, icons[i].y, icons[i].color, ICON_CHAR)])

\* CrowdingComponent._get_component_pixels
crowding_get_component_pixels(c) ==
  IF ~c.font THEN <<>>
  ELSE LET icons == Icons(c)
           \* for dx in range(icon_width): for dy in range(font_height)
           columns(i) == [k \in 1..(get_icon_width(c) * FontHeight) |->
                            LET dx == (k - 1) \div FontHeight
                                dy == (k - 1) % FontHeight
                            IN  <<icons[i].x + dx,
                                  icons[i].y - get_font_baseline(c) + dy,
                                  icons[i].color>>]
       IN  InRegion(Flatten([i \in 1..5 |-> columns(i)]), c.region)

\* TextComponent._get_component_pixels
text_get_component_pixels(c) ==
  IF c.text = <<>> THEN <<>>
  ELSE LET char_width == IF c.font THEN FontWidth + 1 ELSE 4
           char_height == IF c.font THEN FontHeight ELSE 6
           text_width == Len(c.text) * char_width
           text_x == CASE c.align = "center" ->
                            c.region.x + ((c.region.width - text_width) \div 2)
                       [] c.align = "right" -> c.region.x + c.region.width - text_width
                       [] OTHER -> c.region.x
           text_y == CASE c.vertical_align = "center" ->
                            c.region.y + ((c.region.height - char_height) \div 2)
                       [] c.vertical_align = "bottom" ->
                            c.region.y + c.region.height - char_height
                       [] OTHER -> c.region.y
       IN  InRegion([i \in 1..Len(c.text) |->
                       <<text_x + (i - 1) * char_width, text_y, c.color>>],
                    c.region)

\* ---- dispatch on the variant
\* component.render(canvas): the SetPixel calls it makes
render_writes(c, bdf_font) ==
  CASE c.kind = "rectangle" -> rectangle_render_writes(c)
    [] c.kind = "line" -> line_render_writes(c)
    [] c.kind = "pixel" -> pixel_render_writes(c)
    [] c.kind = "border" -> border_render_writes(c)
    [] c.kind = "text" -> text_render_writes(c, bdf_font)
    [] OTHER -> crowding_render_writes(c)

\* component._get_component_pixels
get_component_pixels(c) ==
  CASE c.kind = "rectangle" -> rectangle_get_component_pixels(c)
    [] c.kind = "line" -> draw_line(c)
    [] c.kind = "pixel" -> pixel_get_component_pixels(c)
    [] c.kind = "border" -> border_get_component_pixels(c)
    [] c.kind = "text" -> text_get_component_pixels(c)
    [] OTHER -> crowding_get_component_pixels(c)

\* get_pixels() of a Border that advanced its frame counter as render does
GetPixelsAdvancingFrame(c) ==
  [c |-> IF c.kind = "border" /\ c.visible THEN [c EXCEPT !.frame = c.frame + 1] ELSE c,
   pixels |-> IF ~c.visible THEN <<>> ELSE DrawBackground(c) \o get_component_pixels(c)]

\* Component.get_pixels: the object afterwards and the list returned
get_pixels(c) ==
  [c |-> c,
   pixels |-> IF ~c.visible THEN <<>> ELSE DrawBackground(c) \o get_component_pixels(c)]

\* A footprint holding only the clear colour of Screen.clear.
Blank == [blank |-> TRUE]

\* ================================================================ state
\* The component objects the caller has constructed, and the registry names.
CompIds == {"c1", "c2"}
Names == {"n1", "n2"}

VARIABLES
  comps,        \* CompIds -> the object's fields
  components,   \* Screen.components: name -> CompIds (the standalone registry)
  layout,       \* Screen.layout (present = FALSE: None)
  full_redraw,  \* Screen._full_redraw
  back,         \* which of the two frame buffers Screen.canvas refers to
  buffers,      \* buffer -> CompIds -> what the buffer holds in that footprint
  last,         \* the last call: operation, target, what it did
  anim,         \* per component: the last set_text that went through, and the
                \* update_animation calls since
  threads,      \* a set_text call and an update_animation call on c1 that
                \* run in two threads: their arguments and positions
  arrivals,     \* SharedArrivals.arrivals: line_id -> the list of arrivals
  pass          \* a Screen.render call in progress in the compositor thread:
                \* the statement it is at and the components left to render

\* the state outside the screen's fields
appstate == <<arrivals, pass>>

vars == <<comps, components, layout, full_redraw, back, buffers, last, anim, threads,
          appstate>>

\* Screen.layout = None
NoLayout ==
  [present |-> FALSE, width |-> 0, height |-> 0, regions |-> <<>>, components |-> <<>>]

\* the values of a dict
Values(f) == {f[n] : n \in DOMAIN f}

\* d[name] = value
DictSet(d, name, value) ==
  [n \in DOMAIN d \cup {name} |-> IF n = name THEN value ELSE d[n]]

\* del d[name]
DictDel(d, name) == [n \in DOMAIN d \ {name} |-> d[n]]

\* the buffer on display
front == 1 - back

Log(op, target, cleared, rendered, marked, same, exc) ==
  [op |-> op, target |-> target, cleared |-> cleared, rendered |-> rendered,
   marked |-> marked, same |-> same, exc |-> exc]

\* mode: "instant" or "animated" (the last set_text that was not a no-op);
\* target: its text after truncation; prev: the text committed when it was
\* called; interrupted: an animation was in flight then, towards replaced;
\* ticks: update_animation calls made on the animation it started.
NoAnim ==
  [mode |-> "none", target |-> <<>>, prev |-> <<>>, duration |-> 0, ticks |-> 0,
   interrupted |-> FALSE, replaced |-> <<>>]

\* no call in progress in either thread
NoThreads ==
  [mode |-> "idle", start |-> TextComponent(Region(0, 0, 0, 0), <<>>, FALSE, NoMaxLength),
   text |-> <<>>, animation |-> None,
   duration |-> 0, set_text |-> "done", update_animation |-> "done", progress |-> FZero]

\* no Screen.render call in progress
NoPass ==
  [pc |-> "idle", op |-> "-", cleared |-> FALSE, todo |-> {}, cur |-> "-",
   animating |-> FALSE, rendered |-> {}]

\* Screen.__init__, both frame buffers blank, the components constructed.
InitScreen ==
  /\ threads = NoThreads
  /\ pass = NoPass
  /\ arrivals = <<>>
  /\ components = <<>>
  /\ layout = NoLayout
  /\ full_redraw = TRUE
  /\ back = 0
  /\ buffers = [b \in 0..1 |-> [c \in CompIds |-> Blank]]
  /\ last = Log("init", "-", FALSE, {}, FALSE, FALSE, "none")
  /\ anim = [c \in CompIds |-> NoAnim]

\* The variants and configurations a caller constructs.
Constructed(region) ==
  {RectangleComponent(region),
   LineComponent(Position(region.x, region.y),
                 Position(region.x + region.width - 1, region.y + region.height - 1)),
   PixelComponent(region),
   BorderComponent(region, 8, 4, 1),
   CrowdingComponent(region, TRUE, 3),
   CrowdingComponent(region, FALSE, 3),
   TextComponent(region, <<"a">>, TRUE, NoMaxLength)}

\* ============================================================== Screen
\* Screen.get_all_components / the list all_components of Screen.render,
\* deduplicated by identity
AllComponents ==
  (IF layout.present THEN Values(layout.components) ELSE {}) \cup Values(components)

\* Screen.get_component: the layout's component of that name if there is
\* one, else the standalone one, else None
get_component(name) ==
  IF layout.present /\ name \in DOMAIN layout.components THEN layout.components[name]
  ELSE IF name \in DOMAIN components THEN components[name]
  ELSE None

\* Screen.get_all_components: the layout's dict updated with the standalone one
get_all_components ==
  LET in_layout == IF layout.present THEN layout.components ELSE <<>>
  IN  [n \in DOMAIN in_layout \cup DOMAIN components |->
         IF n \in DOMAIN components THEN components[n] ELSE in_layout[n]]

\* Screen.add_component lines 118-121
ExtendsBeyondScreen(region) ==
  \/ region.x + region.width > ScreenWidth
  \/ region.y + region.height > ScreenHeight

\* recorded for a call that takes no region
NoRegion == Region(0, 0, 0, 0)

\* what the registry and layout calls record besides the common fields
Args(name, region_name, region, sizes, returned) ==
  [name |-> name, region_name |-> region_name, region |-> region,
   sizes |-> sizes, returned |-> returned]

\* Screen.add_component
AddComponent(name, c, region_name) ==
  LET args == Args(name, region_name, comps[c].region, <<>>, <<>>)
  IN
  IF ExtendsBeyondScreen(comps[c].region)
  THEN /\ last' = Log("add_component", c, FALSE, {}, FALSE, FALSE, "ValueError") @@ args
       /\ UNCHANGED <<comps, components, layout, full_redraw, back, buffers, anim, threads, appstate>>
  ELSE IF layout.present /\ region_name # None
  THEN IF region_name \notin DOMAIN layout.regions
       THEN /\ last' = Log("add_component", c, FALSE, {}, FALSE, FALSE, "ValueError") @@ args
            /\ UNCHANGED <<comps, components, layout, full_redraw, back, buffers, anim, threads, appstate>>
       ELSE LET r == set_region(comps[c], layout.regions[region_name])
            IN  /\ comps' = [comps EXCEPT ![c] = r.c]
                /\ layout' = [layout EXCEPT !.components = DictSet(@, name, c)]
                /\ full_redraw' = TRUE
                /\ last' = Log("add_component", c, FALSE, {}, r.marked, FALSE, "none") @@ args
                /\ UNCHANGED <<components, back, buffers, anim, threads, appstate>>
  ELSE /\ components' = DictSet(components, name, c)
       /\ full_redraw' = TRUE
       /\ last' = Log("add_component", c, FALSE, {}, FALSE, FALSE, "none") @@ args
       /\ UNCHANGED <<comps, layout, back, buffers, anim, threads, appstate>>

\* Screen.remove_component
RemoveComponent(name) ==
  /\ layout' = IF layout.present
               THEN [layout EXCEPT !.components = DictDel(@, name)] ELSE layout
  /\ components' = DictDel(components, name)
  /\ full_redraw' = TRUE
  /\ last' = Log("remove_component", "-", FALSE, {}, FALSE, FALSE, "none")
               @@ Args(name, None, NoRegion, <<>>, <<>>)
  /\ UNCHANGED <<comps, back, buffers, anim, threads, appstate>>

\* Screen.clear: every pixel of the canvas set to the colour
Cleared(bufs) == [bufs EXCEPT ![back] = [c \in CompIds |-> Blank]]

ScreenClear ==
  /\ buffers' = Cleared(buffers)
  /\ full_redraw' = TRUE
  /\ last' = Log("clear", "-", TRUE, {}, FALSE, FALSE, "none")
  /\ UNCHANGED <<comps, components, layout, back, anim, threads, appstate>>

\* Screen.render lines 179-181: the components the pass selects
ComponentsToRender(clear) ==
  IF clear THEN AllComponents ELSE {c \in AllComponents : is_dirty(comps[c])}

\* a pass that clears only when asked to and ignores _full_redraw
RenderPassIgnoringFlag(op, clear) ==
  LET cleared == clear
      selected == ComponentsToRender(clear)
      drawn == {c \in selected : comps[c].visible}
      canvas == IF cleared THEN Cleared(buffers) ELSE buffers
  IN  /\ \A c \in AllComponents : comps[c].kind = "border" => comps[c].frame < MaxFrame
      /\ full_redraw' = IF cleared THEN FALSE ELSE full_redraw
      /\ comps' = [c \in CompIds |->
                     IF c \in drawn THEN mark_clean(render(comps[c])) ELSE comps[c]]
      /\ buffers' = [canvas EXCEPT ![back] =
                       [c \in CompIds |-> IF c \in drawn THEN Shown(comps'[c]) ELSE @[c]]]
      /\ back' = 1 - back
      /\ last' = Log(op, "-", cleared, drawn, FALSE, FALSE, "none")
      /\ UNCHANGED <<components, layout, anim, threads, appstate>>

\* Screen.render; op is the name the call is logged under
RenderPass(op, clear) ==
  LET cleared == clear \/ full_redraw
      selected == ComponentsToRender(clear)
      drawn == {c \in selected : comps[c].visible}
      canvas == IF cleared THEN Cleared(buffers) ELSE buffers
  IN  /\ \A c \in AllComponents : comps[c].kind = "border" => comps[c].frame < MaxFrame
      /\ full_redraw' = IF cleared THEN FALSE ELSE full_redraw
      /\ comps' = [c \in CompIds |->
                     IF c \in drawn THEN mark_clean(render(comps[c])) ELSE comps[c]]
      /\ buffers' = [canvas EXCEPT ![back] =
                       [c \in CompIds |-> IF c \in drawn THEN Shown(comps'[c]) ELSE @[c]]]
      /\ back' = 1 - back
      /\ last' = Log(op, "-", cleared, drawn, FALSE, FALSE, "none")
      /\ UNCHANGED <<components, layout, anim, threads, appstate>>

Render(clear) == RenderPass(IF clear THEN "render" ELSE "render_noclear", clear)

\* Screen.update
Update == RenderPass("update", FALSE)

\* Screen.mark_all_dirty
MarkAllDirty ==
  /\ comps' = [c \in CompIds |->
                 IF c \in AllComponents THEN mark_dirty(comps[c]) ELSE comps[c]]
  /\ full_redraw' = TRUE
  /\ last' = Log("mark_all_dirty", "-", FALSE, {}, AllComponents # {}, FALSE, "none")
  /\ UNCHANGED <<components, layout, back, buffers, anim, threads, appstate>>

\* ============================================================== Layout
\* the result of a Layout method: the layout afterwards, the exception
\* raised ("none": returned) and the list returned (<<>>: nothing returned)
LayoutRet(l, exc, returned) == [layout |-> l, exc |-> exc, returned |-> returned]

\* Layout.__init__
Layout(width, height) ==
  [present |-> TRUE, width |-> width, height |-> height, regions |-> <<>>,
   components |-> <<>>]

\* define_region without the test for negative coordinates of lines 33-34
DefineRegionNoNegativeTest(l, name, region) ==
  IF region.x + region.width > l.width THEN LayoutRet(l, "ValueError", <<>>)
  ELSE IF region.y + region.height > l.height THEN LayoutRet(l, "ValueError", <<>>)
  ELSE LayoutRet([l EXCEPT !.regions = DictSet(@, name, region)], "none", <<>>)

\* Layout.define_region
define_region(l, name, region) ==
  IF region.x < 0 \/ region.y < 0 THEN LayoutRet(l, "ValueError", <<>>)
  ELSE IF region.x + region.width > l.width THEN LayoutRet(l, "ValueError", <<>>)
  ELSE IF region.y + region.height > l.height THEN LayoutRet(l, "ValueError", <<>>)
  ELSE LayoutRet([l EXCEPT !.regions = DictSet(@, name, region)], "none", <<>>)

\* f"{name}_{i}"
SubName(name, i) == name \o "_" \o ToString(i)

\* sum(s for s in sizes if s > 0)
RECURSIVE SumFixed(_)
SumFixed(sizes) ==
  IF sizes = <<>> THEN 0
  ELSE (IF Head(sizes) > 0 THEN Head(sizes) ELSE 0) + SumFixed(Tail(sizes))

\* sum(1 for s in sizes if s < 0)
NumFlex(sizes) == Cardinality({i \in 1..Len(sizes) : sizes[i] < 0})

\* every flex entry given all of the remaining space
FlexSizeUndivided(extent, sizes) ==
  IF NumFlex(sizes) > 0 THEN extent - SumFixed(sizes) ELSE 0

\* remaining // num_flex, or 0 without flex entries
FlexSize(extent, sizes) ==
  IF NumFlex(sizes) > 0 THEN (extent - SumFixed(sizes)) \div NumFlex(sizes) ELSE 0

\* the loop of split_horizontal (lines 117-127) from entry i (0-based) on,
\* with x_offset = offset and new_regions as built so far
RECURSIVE SplitHorizontalLoop(_, _, _, _, _, _, _)
SplitHorizontalLoop(l, name, region, sizes, i, offset, new_regions) ==
  IF i >= Len(sizes) THEN LayoutRet(l, "none", new_regions)
  ELSE LET size == sizes[i + 1]
           width == IF size < 0 THEN FlexSize(region.width, sizes) ELSE size
           sub_name == SubName(name, i)
           defined == define_region(l, sub_name,
                                    Region(offset, region.y, width, region.height))
       IN  IF defined.exc # "none" THEN LayoutRet(defined.layout, defined.exc, <<>>)
           ELSE SplitHorizontalLoop(defined.layout, name, region, sizes, i + 1,
                                    offset + width, Append(new_regions, sub_name))

\* Layout.split_horizontal
split_horizontal(l, name, sizes) ==
  IF name \notin DOMAIN l.regions THEN LayoutRet(l, "ValueError", <<>>)
  ELSE SplitHorizontalLoop(l, name, l.regions[name], sizes, 0, l.regions[name].x, <<>>)

\* the loop of split_vertical (lines 159-169)
RECURSIVE SplitVerticalLoop(_, _, _, _, _, _, _)
SplitVerticalLoop(l, name, region, sizes, i, offset, new_regions) ==
  IF i >= Len(sizes) THEN LayoutRet(l, "none", new_regions)
  ELSE LET size == sizes[i + 1]
           height == IF size < 0 THEN FlexSize(region.height, sizes) ELSE size
           sub_name == SubName(name, i)
           defined == define_region(l, sub_name,
                                    Region(region.x, offset, region.width, height))
       IN  IF defined.exc # "none" THEN LayoutRet(defined.layout, defined.exc, <<>>)
           ELSE SplitVerticalLoop(defined.layout, name, region, sizes, i + 1,
                                  offset + height, Append(new_regions, sub_name))

\* Layout.split_vertical
split_vertical(l, name, sizes) ==
  IF name \notin DOMAIN l.regions THEN LayoutRet(l, "ValueError", <<>>)
  ELSE SplitVerticalLoop(l, name, l.regions[name], sizes, 0, l.regions[name].y, <<>>)

\* a call on the Layout object that touches no component
LayoutCall(op, r, args) ==
  /\ layout.present
  /\ layout' = r.layout
  /\ last' = Log(op, "-", FALSE, {}, FALSE, FALSE, r.exc)
               @@ [args EXCEPT !.returned = r.returned]
  /\ UNCHANGED <<comps, components, full_redraw, back, buffers, anim, threads, appstate>>

\* Screen.create_layout(width); `width or self.width`: 0 (like None) takes
\* the screen's width, and so does the height, which is not passed
CreateLayout(width) ==
  LET layout_width == IF width = 0 THEN ScreenWidth ELSE width
      layout_height == ScreenHeight
      args == Args("full", None, Region(0, 0, layout_width, layout_height), <<>>, <<>>)
  IN  IF layout_width > ScreenWidth \/ layout_height > ScreenHeight
      THEN /\ last' = Log("create_layout", "-", FALSE, {}, FALSE, FALSE, "ValueError") @@ args
           /\ UNCHANGED <<comps, components, layout, full_redraw, back, buffers, anim, threads, appstate>>
      ELSE /\ layout' = define_region(Layout(layout_width, layout_height), "full",
                                      Region(0, 0, layout_width, layout_height)).layout
           /\ last' = Log("create_layout", "-", FALSE, {}, FALSE, FALSE, "none") @@ args
           /\ UNCHANGED <<comps, components, full_redraw, back, buffers, anim, threads, appstate>>

DefineRegion(name, region) ==
  LayoutCall("define_region", define_region(layout, name, region),
             Args(name, None, region, <<>>, <<>>))

SplitHorizontal(name, sizes) ==
  LayoutCall("split_horizontal", split_horizontal(layout, name, sizes),
             Args(name, None, NoRegion, sizes, <<>>))

SplitVertical(name, sizes) ==
  LayoutCall("split_vertical", split_vertical(layout, name, sizes),
             Args(name, None, NoRegion, sizes, <<>>))

\* Layout.add_component called on screen.layout
LayoutAddComponent(name, c, region_name) ==
  LET args == Args(name, region_name, comps[c].region, <<>>, <<>>)
  IN  /\ layout.present
      /\ IF region_name # None /\ region_name \notin DOMAIN layout.regions
         THEN /\ last' = Log("layout_add_component", c, FALSE, {}, FALSE, FALSE,
                             "ValueError") @@ args
              /\ UNCHANGED <<comps, layout>>
         ELSE LET r == IF region_name # None
                       THEN set_region(comps[c], layout.regions[region_name])
                       ELSE Ret(comps[c], FALSE, "none")
              IN  /\ comps' = [comps EXCEPT ![c] = r.c]
                  /\ layout' = [layout EXCEPT !.components = DictSet(@, name, c)]
                  /\ last' = Log("layout_add_component", c, FALSE, {}, r.marked,
                                 FALSE, "none") @@ args
      /\ UNCHANGED <<components, full_redraw, back, buffers, anim, threads, appstate>>

\* Layout.remove_component called on screen.layout
LayoutRemoveComponent(name) ==
  /\ layout.present
  /\ layout' = [layout EXCEPT !.components = DictDel(@, name)]
  /\ last' = Log("layout_remove_component", "-", FALSE, {}, FALSE, FALSE, "none")
               @@ Args(name, None, NoRegion, <<>>, <<>>)
  /\ UNCHANGED <<comps, components, full_redraw, back, buffers, anim, threads, appstate>>

\* Layout.update_component_region called on screen.layout
UpdateComponentRegion(name, region_name) ==
  LET args == Args(name, region_name, NoRegion, <<>>, <<>>)
  IN  /\ layout.present
      /\ IF name \notin DOMAIN layout.components \/ region_name \notin DOMAIN layout.regions
         THEN /\ last' = Log("update_component_region", "-", FALSE, {}, FALSE, FALSE,
                             "ValueError") @@ args
              /\ UNCHANGED comps
         ELSE LET c == layout.components[name]
                  r == set_region(comps[c], layout.regions[region_name])
              IN  /\ comps' = [comps EXCEPT ![c] = r.c]
                  /\ last' = Log("update_component_region", c, FALSE, {}, r.marked,
                                 FALSE, "none") @@ args
      /\ UNCHANGED <<components, layout, full_redraw, back, buffers, anim, threads, appstate>>

\* ====================================================== component calls
\* A method call on component c that returned (or raised) with result r.
Call(op, c, r, same) ==
  /\ comps' = [comps EXCEPT ![c] = r.c]
  /\ last' = Log(op, c, FALSE, {}, r.marked, same, r.exc)
  /\ UNCHANGED <<components, layout, full_redraw, back, buffers, anim, threads, appstate>>

MarkDirty(c) ==
  Call("mark_dirty", c, Ret(mark_dirty(comps[c]), TRUE, "none"), FALSE)

SetVisible(c, visible) ==
  Call("set_visible", c, set_visible(comps[c], visible), comps[c].visible = visible)

SetRegion(c, region) ==
  Call("set_region", c, set_region(comps[c], region), comps[c].region = region)

SetBackgroundColor(c, color) ==
  Call("set_background_color", c, set_background_color(comps[c], color),
       comps[c].background_color = color)

RectSetColor(c, color) ==
  /\ comps[c].kind = "rectangle"
  /\ Call("set_color", c, rect_set_color(comps[c], color), comps[c].color = color)

RectSetFill(c, fill) ==
  /\ comps[c].kind = "rectangle"
  /\ Call("set_fill", c, rect_set_fill(comps[c], fill), comps[c].fill = fill)

LineSetColor(c, color) ==
  /\ comps[c].kind = "line"
  /\ Call("set_color", c, line_set_color(comps[c], color), comps[c].color = color)

LineSetPoints(c, start, end) ==
  /\ comps[c].kind = "line"
  /\ Call("set_points", c, line_set_points(comps[c], start, end),
          comps[c].start = start /\ comps[c].end = end)

SetPixel(c, rel_x, rel_y, color) ==
  /\ comps[c].kind = "pixel"
  /\ LET r == set_pixel(comps[c], rel_x, rel_y, color)
     IN  /\ comps' = [comps EXCEPT ![c] = r.c]
         /\ last' = Log("set_pixel", c, FALSE, {}, r.marked,
                        \E i \in DOMAIN comps[c].pixel_data :
                           comps[c].pixel_data[i] = <<rel_x, rel_y, color>>,
                        r.exc)
                     @@ [pixel |-> <<rel_x, rel_y, color>>]
  /\ UNCHANGED <<components, layout, full_redraw, back, buffers, anim, threads, appstate>>

ClearPixels(c) ==
  /\ comps[c].kind = "pixel"
  /\ Call("clear_pixels", c, clear_pixels(comps[c]), comps[c].pixel_data = <<>>)

SetPixels(c, pixel_data) ==
  /\ comps[c].kind = "pixel"
  /\ Call("set_pixels", c, set_pixels(comps[c], pixel_data),
          comps[c].pixel_data = pixel_data)

SetSpeed(c, speed) ==
  /\ comps[c].kind = "border"
  /\ Call("set_speed", c, set_speed(comps[c], speed), comps[c].speed = speed)

ResetAnimation(c) ==
  /\ comps[c].kind = "border"
  /\ Call("reset_animation", c, reset_animation(comps[c]), FALSE)

TextSetColor(c, color) ==
  /\ comps[c].kind = "text"
  /\ Call("set_color", c, text_set_color(comps[c], color), comps[c].color = color)

TextSetAlign(c, align) ==
  /\ comps[c].kind = "text"
  /\ Call("set_align", c, text_set_align(comps[c], align), comps[c].align = align)

SetVerticalAlign(c, vertical_align) ==
  /\ comps[c].kind = "text"
  /\ Call("set_vertical_align", c, set_vertical_align(comps[c], vertical_align),
          comps[c].vertical_align = vertical_align)

SetValue(c, value) ==
  /\ comps[c].kind = "crowding"
  /\ LET r == set_value(comps[c], value)
     IN  /\ comps' = [comps EXCEPT ![c] = r.c]
         /\ last' = Log("set_value", c, FALSE, {}, r.marked, comps[c].value = value, r.exc)
                     @@ [value |-> value]
  /\ UNCHANGED <<components, layout, full_redraw, back, buffers, anim, threads, appstate>>

SetLevelColor(c, level, color) ==
  /\ comps[c].kind = "crowding"
  /\ Call("set_level_color", c, set_level_color(comps[c], level, color),
          level \in 1..5 /\ comps[c].level_colors[level] = color)

SetLevelColors(c, level_colors) ==
  /\ comps[c].kind = "crowding"
  /\ Call("set_level_colors", c, set_level_colors(comps[c], level_colors),
          comps[c].level_colors = level_colors)

SetInactiveColor(c, color) ==
  /\ comps[c].kind = "crowding"
  /\ Call("set_inactive_color", c, set_inactive_color(comps[c], color),
          comps[c].inactive_color = color)

CrowdingSetAlign(c, align) ==
  /\ comps[c].kind = "crowding"
  /\ Call("set_align", c, crowding_set_align(comps[c], align), comps[c].align = align)

\* TextComponent.set_text called by a scheduler or the caller
SetText(c, text, animation, duration) ==
  /\ comps[c].kind = "text"
  /\ LET r == set_text(comps[c], text, animation, duration)
         trimmed == trim_text(comps[c].max_text_length, text)
         through == ~(trimmed = comps[c].text /\ ~comps[c].is_animating)
     IN  /\ comps' = [comps EXCEPT ![c] = r.c]
         /\ last' = Log("set_text", c, FALSE, {}, r.marked, text = comps[c].text, r.exc)
                     @@ [trimmed |-> trimmed]
         /\ anim' = IF through
                    THEN [anim EXCEPT ![c] =
                            [mode |-> IF animation = None \/ animation = "none"
                                      THEN "instant" ELSE "animated",
                             target |-> trimmed, prev |-> comps[c].text,
                             duration |-> duration, ticks |-> 0,
                             interrupted |-> comps[c].is_animating,
                             replaced |-> IF comps[c].is_animating
                                          THEN comps[c].new_text ELSE <<>>]]
                    ELSE anim
  /\ UNCHANGED <<components, layout, full_redraw, back, buffers, threads, appstate>>

\* TextComponent.update_animation called as the progression tick
UpdateAnimation(c) ==
  /\ comps[c].kind = "text"
  /\ LET r == update_animation(comps[c])
     IN  /\ comps' = [comps EXCEPT ![c] = r.c]
         /\ last' = Log("update_animation", c, FALSE, {}, r.marked, FALSE, r.exc)
         /\ anim' = IF comps[c].is_animating
                    THEN [anim EXCEPT ![c].ticks = @ + 1] ELSE anim
  /\ UNCHANGED <<components, layout, full_redraw, back, buffers, threads, appstate>>

\* Screen.render lines 185-187 for one component: render it, then mark it clean
DrawComponent(c) ==
  /\ comps[c].visible
  /\ comps[c].kind = "border" => comps[c].frame < MaxFrame
  /\ comps' = [comps EXCEPT ![c] = mark_clean(render(comps[c]))]
  /\ last' = Log("draw", c, FALSE, {c}, FALSE, FALSE, "none")
  /\ UNCHANGED <<components, layout, full_redraw, back, buffers, anim, threads, appstate>>


\* what the drawing calls record besides the common fields: the SetPixel
\* calls made on the canvas and the list get_pixels returned
Canvas(written, pixels) == [written |-> written, pixels |-> pixels]

\* component.render(canvas) called on its own; bdf_font: the font object has
\* the attribute bdf_font
RenderComponent(c, bdf_font) ==
  /\ comps[c].kind = "border" => comps[c].frame < MaxFrame
  /\ comps' = [comps EXCEPT ![c] = render(comps[c])]
  /\ last' = Log("render_component", c, FALSE, {c}, FALSE, FALSE, "none")
              @@ Canvas(render_writes(comps[c], bdf_font), <<>>)
  /\ UNCHANGED <<components, layout, full_redraw, back, buffers, anim, threads, appstate>>

\* component.get_pixels()
GetPixels(c) ==
  LET r == get_pixels(comps[c])
  IN  /\ comps' = [comps EXCEPT ![c] = r.c]
      /\ last' = Log("get_pixels", c, FALSE, {}, FALSE, FALSE, "none")
                  @@ Canvas(<<>>, r.pixels)
      /\ UNCHANGED <<components, layout, full_redraw, back, buffers, anim, threads, appstate>>

\* ------------------------------------------------ SharedArrivals calls
\* The log of a call on shared_arrivals. run: the get_next_arrival calls
\* made on line_id since the last other call (at most as many as the list
\* is long, then a new run starts), with the list they started from and the
\* values they returned.
NoRun == [start |-> <<>>, returned |-> <<>>]

ArrivalsLog(op, line_id, returned, exc, run) ==
  Log(op, "-", FALSE, {}, FALSE, FALSE, exc)
    @@ [line_id |-> line_id, arrival |-> returned, run |-> run]

\* shared_arrivals.set_arrivals(line_id, list)
SetArrivals(line_id, list) ==
  /\ arrivals' = set_arrivals(arrivals, line_id, list)
  /\ last' = ArrivalsLog("set_arrivals", line_id, None, "none", NoRun)
  /\ UNCHANGED <<comps, components, layout, full_redraw, back, buffers, anim, threads,
                 pass>>

\* shared_arrivals.get_next_arrival(line_id)
GetNextArrival(line_id) ==
  LET r == get_next_arrival(arrivals, line_id)
      continues == /\ last.op = "get_next_arrival" /\ last.line_id = line_id
                   /\ last.exc = "none"
                   /\ Len(last.run.returned) < Len(last.run.start)
      start == IF continues THEN last.run.start
               ELSE IF line_id \in DOMAIN arrivals THEN arrivals[line_id] ELSE <<>>
      before == IF continues THEN last.run.returned ELSE <<>>
      run == [start |-> start,
              returned |-> IF r.returned = None THEN before
                           ELSE Append(before, r.returned)]
  IN  /\ arrivals' = r.arrivals
      /\ last' = ArrivalsLog("get_next_arrival", line_id, r.returned, r.exc, run)
      /\ UNCHANGED <<comps, components, layout, full_redraw, back, buffers, anim, threads,
                     pass>>

\* ================================================ calls in two threads
\* TextComponent.set_text statement by statement: the object and the line
\* the thread is at after executing the statement at line pc.
SetTextStep(c, pc, text, animation, duration) ==
  LET trimmed_text == IF c.max_text_length # NoMaxLength
                      THEN trim_text(c.max_text_length, text) ELSE text
      instant == animation = None \/ animation = "none"
      At(obj, line) == [c |-> obj, pc |-> line]
  IN  CASE pc = "597" -> IF SetTextIsNoOp(c, trimmed_text) THEN At(c, "done")
                         ELSE At(c, "601")
        [] pc = "601" -> At([c EXCEPT !.animation_timer = None],
                            IF instant THEN "607" ELSE "618")
        [] pc = "607" -> At([c EXCEPT !.text = trimmed_text], "608")
        [] pc = "608" -> At([c EXCEPT !.is_animating = FALSE], "609")
        [] pc = "609" -> At([c EXCEPT !.animation_type = "none"], "612")
        [] pc = "612" -> At([c EXCEPT !.needs_clear = TRUE], "613")
        [] pc = "613" -> At([c EXCEPT !.last_rendered_text = <<>>], "615")
        [] pc = "615" -> At(c, "done")
        [] pc = "618" -> At([c EXCEPT !.old_text = c.text], "619")
        [] pc = "619" -> At([c EXCEPT !.new_text = trimmed_text], "620")
        [] pc = "620" -> At([c EXCEPT !.animation_type = animation], "621")
        [] pc = "621" -> At([c EXCEPT !.animation_progress = FZero], "622")
        [] pc = "622" -> At([c EXCEPT !.animation_duration = duration], "623")
        [] pc = "623" -> At([c EXCEPT !.is_animating = TRUE], "625")
        [] pc = "625" -> At([c EXCEPT !.needs_clear = TRUE], "626")
        [] pc = "626" -> At([c EXCEPT !.last_rendered_progress = FMinusOne], "628")
        [] pc = "628" -> IF SyncRaises = "none"
                         THEN At(schedule_next_animation_frame(c), "done")
                         ELSE At(c, "done")

\* TextComponent.update_animation statement by statement; line 529 reads
\* the progress and the duration, adds, and then stores the sum.
UpdateAnimationStep(c, pc, progress) ==
  LET At(obj, line, sum) == [c |-> obj, pc |-> line, progress |-> sum]
  IN  CASE pc = "526" -> IF ~c.is_animating THEN At(c, "done", progress)
                         ELSE At(c, "529", progress)
        [] pc = "529" -> At(c, "529store", AdvanceProgress(c))
        [] pc = "529store" -> At([c EXCEPT !.animation_progress = progress], "531", FZero)
        [] pc = "531" -> IF FGeOne(c.animation_progress) THEN At(c, "533", progress)
                         ELSE At(c, "548", progress)
        [] pc = "533" -> At([c EXCEPT !.animation_progress = FOne], "534", progress)
        [] pc = "534" -> At([c EXCEPT !.text = c.new_text], "535", progress)
        [] pc = "535" -> At([c EXCEPT !.is_animating = FALSE], "536", progress)
        [] pc = "536" -> At([c EXCEPT !.animation_type = "none"], "538", progress)
        [] pc = "538" -> At([c EXCEPT !.animation_timer = None], "542", progress)
        [] pc = "542" -> At([c EXCEPT !.last_rendered_text = <<>>], "543", progress)
        [] pc = "543" -> At([c EXCEPT !.needs_clear = TRUE], "545", progress)
        [] pc = "545" -> At(c, "done", progress)
        [] pc = "548" -> IF SyncRaises = "none"
                         THEN At(schedule_next_animation_frame(c), "done", progress)
                         ELSE At(c, "done", progress)

\* no pair of concurrent calls has been started
Idle == threads.mode = "idle"

\* A scheduler thread enters set_text(text, animation, duration) on c while
\* the timer thread enters update_animation on it.
StartCalls(c, text, animation, duration) ==
  /\ Idle
  /\ comps[c].kind = "text"
  /\ threads' = [mode |-> "running", start |-> comps[c], text |-> text,
                 animation |-> animation, duration |-> duration,
                 set_text |-> "597", update_animation |-> "526", progress |-> FZero]
  /\ last' = Log("start_calls", c, FALSE, {}, FALSE, FALSE, "none")
  /\ UNCHANGED <<comps, components, layout, full_redraw, back, buffers, anim, appstate>>

\* the scheduler thread executes its next statement of set_text
SetTextThread(c) ==
  /\ threads.mode = "running" /\ threads.set_text # "done"
  /\ LET r == SetTextStep(comps[c], threads.set_text, threads.text,
                          threads.animation, threads.duration)
     IN  /\ comps' = [comps EXCEPT ![c] = r.c]
         /\ threads' = [threads EXCEPT !.set_text = r.pc]
  /\ last' = Log("set_text_statement", c, FALSE, {}, FALSE, FALSE, "none")
  /\ UNCHANGED <<components, layout, full_redraw, back, buffers, anim, appstate>>

\* the timer thread executes its next statement of update_animation
UpdateAnimationThread(c) ==
  /\ threads.mode = "running" /\ threads.update_animation # "done"
  /\ LET r == UpdateAnimationStep(comps[c], threads.update_animation, threads.progress)
     IN  /\ comps' = [comps EXCEPT ![c] = r.c]
         /\ threads' = [threads EXCEPT !.update_animation = r.pc, !.progress = r.progress]
  /\ last' = Log("update_animation_statement", c, FALSE, {}, FALSE, FALSE, "none")
  /\ UNCHANGED <<components, layout, full_redraw, back, buffers, anim, appstate>>

\* both calls have returned (or raised)
CallsReturned ==
  threads.mode = "running" /\ threads.set_text = "done" /\ threads.update_animation = "done"

\* the two threads are joined; the behaviour ends with the pair of calls
FinishCalls(c) ==
  /\ CallsReturned
  /\ threads' = [threads EXCEPT !.mode = "joined"]
  /\ last' = Log("finish_calls", c, FALSE, {}, FALSE, FALSE, "none")
  /\ UNCHANGED <<comps, components, layout, full_redraw, back, buffers, anim, appstate>>

\* ============================================ a pass in its own thread
\* TextComponent.render lines 115-133 after the drawing: the assignments of
\* the branch taken at line 99 (animating: the value of _is_animating then)
TextRenderFlags(c, animating) ==
  IF animating
  THEN [c EXCEPT !.last_rendered_progress = c.animation_progress]
  ELSE [c EXCEPT !.last_rendered_text = c.text, !.last_rendered_color = c.color,
                 !.last_rendered_progress = FMinusOne, !.needs_clear = FALSE,
                 !.dirty = FALSE]

\* Screen.render lines 163-181, in the compositor thread (which holds no
\* lock): the clear and the selection of the components to render
BeginPass(op, clear) ==
  LET cleared == clear \/ full_redraw
  IN  /\ pass.pc = "idle"
      /\ \A c \in AllComponents : comps[c].kind = "border" => comps[c].frame < MaxFrame
      /\ full_redraw' = IF cleared THEN FALSE ELSE full_redraw
      /\ buffers' = IF cleared THEN Cleared(buffers) ELSE buffers
      /\ pass' = [NoPass EXCEPT !.pc = "loop", !.op = op, !.cleared = cleared,
                                !.todo = ComponentsToRender(clear)]
      /\ last' = Log("begin_pass", "-", cleared, {}, FALSE, FALSE, "none")
      /\ UNCHANGED <<comps, components, layout, back, anim, threads, arrivals>>

\* Screen.render lines 183-186 for the next component: skipped when it is not
\* visible, else component.render(self.canvas): the drawing, and for a text
\* the flags are still to be reset
PassRender(c) ==
  /\ pass.pc = "loop" /\ c \in pass.todo
  /\ IF ~comps[c].visible
     THEN /\ pass' = [pass EXCEPT !.todo = @ \ {c}]
          /\ UNCHANGED <<comps, buffers>>
     ELSE /\ comps' = [comps EXCEPT ![c] = IF @.kind = "text" THEN @ ELSE render(@)]
          /\ buffers' = [buffers EXCEPT ![back][c] = Shown(comps'[c])]
          /\ pass' = [pass EXCEPT !.cur = c, !.animating = comps[c].kind = "text"
                                                         /\ comps[c].is_animating,
                                  !.pc = IF comps[c].kind = "text" THEN "flags"
                                         ELSE "mark_clean"]
  /\ last' = Log("pass_render", c, FALSE, {}, FALSE, FALSE, "none")
  /\ UNCHANGED <<components, layout, full_redraw, back, anim, threads, arrivals>>

\* TextComponent.render lines 111-112 or 128-133 of the pass's render call
PassFlags ==
  /\ pass.pc = "flags"
  /\ comps' = [comps EXCEPT ![pass.cur] = TextRenderFlags(@, pass.animating)]
  /\ pass' = [pass EXCEPT !.pc = "mark_clean"]
  /\ last' = Log("pass_flags", pass.cur, FALSE, {}, FALSE, FALSE, "none")
  /\ UNCHANGED <<components, layout, full_redraw, back, buffers, anim, threads, arrivals>>

\* Screen.render line 187: component.mark_clean()
PassMarkClean ==
  /\ pass.pc = "mark_clean"
  /\ comps' = [comps EXCEPT ![pass.cur] = mark_clean(@)]
  /\ pass' = [pass EXCEPT !.pc = "loop", !.todo = @ \ {pass.cur},
                          !.rendered = @ \cup {pass.cur}, !.cur = "-"]
  /\ last' = Log("pass_mark_clean", pass.cur, FALSE, {}, FALSE, FALSE, "none")
  /\ UNCHANGED <<components, layout, full_redraw, back, buffers, anim, threads, arrivals>>

\* Screen.render line 190: the swap that ends the pass
EndPass ==
  /\ pass.pc = "loop" /\ pass.todo = {}
  /\ back' = 1 - back
  /\ pass' = NoPass
  /\ last' = Log(pass.op, "-", pass.cleared, pass.rendered, FALSE, FALSE, "none")
  /\ UNCHANGED <<comps, components, layout, full_redraw, buffers, anim, threads, arrivals>>

\* ================================================================ inputs
Colors == {"white", "red"}
BackgroundColors == {None, "blue"}
Region1 == Region(0, 0, 2, 1)
Region2 == Region(2, 0, 2, 1)
SmallRegion == Region(0, 0, 1, 1)
Texts == {<<"a">>, <<"b", "c">>}
Animations == {None, "push"}
Values5 == {-1, 3, 7}

\* ================================================= compositor behaviours
\* A screen, one component of any variant (c1) and a rectangle (c2).
Init ==
  /\ InitScreen
  /\ \E c1 \in Constructed(Region1) :
       comps = [c \in CompIds |-> IF c = "c1" THEN c1 ELSE RectangleComponent(Region2)]

\* the name each object is registered under
NameOf(c) == IF c = "c1" THEN "n1" ELSE "n2"

Next ==
  \/ \E c \in CompIds : AddComponent(NameOf(c), c, None)
  \/ \E name \in Names : RemoveComponent(name)
  \/ ScreenClear
  \/ Render(TRUE)
  \/ Update
  \/ MarkAllDirty
  \/ MarkDirty("c1")
  \/ \E visible \in BOOLEAN : SetVisible("c1", visible)
  \/ \E color \in Colors : RectSetColor("c1", color)
  \/ \E color \in Colors : LineSetColor("c1", color)
  \/ SetPixel("c1", 0, 0, "red")
  \/ \E animation \in {None, "push"} : SetText("c1", <<"b">>, animation, 1)
  \/ UpdateAnimation("c1")
  \/ \E value \in {3, 7} : SetValue("c1", value)

Spec == Init /\ [][Next]_vars

\* ================================================== component behaviours
\* One component of any variant, every setter, and the compositor's
\* render-then-mark-clean step on it.
InitComponent ==
  /\ InitScreen
  /\ \E c1 \in Constructed(Region1)
              \cup {TextComponent(Region1, <<"b", "c">>, TRUE, 1),
                    TextComponent(Region1, <<"a">>, FALSE, NoMaxLength)} :
       comps = [c \in CompIds |-> IF c = "c1" THEN c1 ELSE RectangleComponent(Region2)]

NextComponent ==
  \/ MarkDirty("c1")
  \/ \E visible \in BOOLEAN : SetVisible("c1", visible)
  \/ \E region \in {Region1, SmallRegion} : SetRegion("c1", region)
  \/ \E color \in BackgroundColors : SetBackgroundColor("c1", color)
  \/ \E color \in Colors : RectSetColor("c1", color)
  \/ \E fill \in BOOLEAN : RectSetFill("c1", fill)
  \/ \E color \in Colors : LineSetColor("c1", color)
  \/ \E end \in {Position(1, 0), Position(0, 0)} : LineSetPoints("c1", Position(0, 0), end)
  \/ \E color \in Colors : SetPixel("c1", 0, 0, color)
  \/ ClearPixels("c1")
  \/ \E pixel_data \in {<<>>, << <<1, 0, "white">> >>} : SetPixels("c1", pixel_data)
  \/ \E speed \in {1, 2} : SetSpeed("c1", speed)
  \/ ResetAnimation("c1")
  \/ \E color \in Colors : TextSetColor("c1", color)
  \/ \E align \in {"left", "center"} : TextSetAlign("c1", align)
  \/ \E vertical_align \in {"top", "center"} : SetVerticalAlign("c1", vertical_align)
  \/ \E text \in Texts \cup {<<>>} : SetText("c1", text, None, 1)
  \/ \E value \in Values5 : SetValue("c1", value)
  \/ \E level \in {0, 3}, color \in {"amber", "red"} : SetLevelColor("c1", level, color)
  \/ SetLevelColors("c1", DEFAULT_LEVEL_COLORS)
  \/ \E color \in {"darkgrey", "grey"} : SetInactiveColor("c1", color)
  \/ \E align \in {"center", "left"} : CrowdingSetAlign("c1", align)
  \/ DrawComponent("c1")

SpecComponent == InitComponent /\ [][NextComponent]_vars

\* ======================================================= text behaviours
\* One Text component, with and without max_text_length, driven by set_text
\* and by update_animation ticks, and drawn by the compositor.
InitText ==
  /\ InitScreen
  /\ \E max_text_length \in {NoMaxLength, 1} :
       comps = [c \in CompIds |->
                  IF c = "c1" THEN TextComponent(Region1, <<"a">>, TRUE, max_text_length)
                  ELSE RectangleComponent(Region2)]

NextText ==
  \/ \E text \in Texts, animation \in Animations, duration \in 1..MaxDuration :
       SetText("c1", text, animation, duration)
  \/ UpdateAnimation("c1")
  \/ DrawComponent("c1")

SpecText == InitText /\ [][NextText]_vars

\* ======================================================= race behaviours
\* One Text component; after calls made one at a time, a set_text call and
\* an update_animation call run in two threads, statement by statement.
MaxRaceDuration == 2

InitRace ==
  /\ InitScreen
  /\ comps = [c \in CompIds |->
                IF c = "c1" THEN TextComponent(Region1, <<"a">>, TRUE, NoMaxLength)
                ELSE RectangleComponent(Region2)]

NextRace ==
  \/ \E text \in Texts, animation \in Animations, duration \in 1..MaxRaceDuration :
       Idle /\ SetText("c1", text, animation, duration)
  \/ Idle /\ UpdateAnimation("c1")
  \/ \E text \in Texts, animation \in Animations, duration \in 1..MaxRaceDuration :
       StartCalls("c1", text, animation, duration)
  \/ SetTextThread("c1")
  \/ UpdateAnimationThread("c1")
  \/ FinishCalls("c1")

SpecRace == InitRace /\ [][NextRace]_vars

\* ===================================================== layout behaviours
\* A layout created on the screen (as wide as the screen, narrower, or too
\* wide), a region "r" defined in it, regions split both ways, and a
\* rectangle registered with the layout and bound to its regions.
MaxSizes == 3

LayoutWidths == {0, 3, 5}
DefinedRegions ==
  {Region(0, 0, 2, 2), Region(1, 0, 2, 1), Region(-1, 0, 2, 1), Region(2, 0, 3, 1),
   Region(0, 1, 2, 2)}
SizeLists ==
  {sizes \in UNION {[1..n -> {-1, 1, 3}] : n \in 1..MaxSizes} :
     NumFlex(sizes) = Len(sizes) \/ sizes \in {<<1, -1>>, <<3, -1, 1>>, <<1, 1>>, <<1, 3>>, <<3>>}}
RegionNames == {"full", "r", "nope"}

\* the region has not been split in this layout (each region is split once)
Unsplit(name) == SubName(name, 0) \notin DOMAIN layout.regions

InitLayout ==
  /\ InitScreen
  /\ comps = [c \in CompIds |-> RectangleComponent(IF c = "c1" THEN Region1 ELSE Region2)]

NextLayout ==
  \/ \E width \in LayoutWidths : CreateLayout(width)
  \/ \E region \in DefinedRegions : DefineRegion("r", region)
  \/ \E name \in RegionNames, sizes \in SizeLists :
       Unsplit(name) /\ SplitHorizontal(name, sizes)
  \/ \E name \in RegionNames, sizes \in SizeLists :
       Unsplit(name) /\ SplitVertical(name, sizes)
  \/ \E region_name \in {None, "r", "nope"} : LayoutAddComponent("n1", "c1", region_name)
  \/ \E name \in {"n1", "zz"} : LayoutRemoveComponent(name)
  \/ \E name \in {"n1", "zz"}, region_name \in {"r", "nope"} :
       UpdateComponentRegion(name, region_name)

SpecLayout == InitLayout /\ [][NextLayout]_vars

\* =================================================== registry behaviours
\* Two rectangles registered and removed through the screen, with and
\* without a region name, before and after the screen has a layout. c1 is
\* constructed inside, left of, or overshooting the screen.
ComponentRegions == {Region1, Region(-1, 0, 2, 1), Region(3, 0, 2, 1)}

InitRegistry ==
  /\ InitScreen
  /\ \E region \in ComponentRegions :
       comps = [c \in CompIds |-> IF c = "c1" THEN RectangleComponent(region)
                                  ELSE RectangleComponent(Region2)]

NextRegistry ==
  \/ CreateLayout(0)
  \/ DefineRegion("r", Region(1, 0, 2, 1))
  \/ \E name \in Names, c \in CompIds, region_name \in {None, "full", "nope"} :
       AddComponent(name, c, region_name)
  \/ \E name \in Names \cup {"zz"} : RemoveComponent(name)

SpecRegistry == InitRegistry /\ [][NextRegistry]_vars

\* ===================================================== canvas behaviours
\* One component of any variant, changed by its setters, rendered on its own
\* and enumerated by get_pixels.
CanvasRegions == {Region(0, 0, 1, 1), Region(1, 0, 2, 2)}
CanvasAnimations == {None, "push", "fade", "typewriter", "slide_left", "slide_up"}

InitCanvas ==
  /\ InitScreen
  /\ \E region \in CanvasRegions :
       \E c1 \in Constructed(region)
                  \cup {TextComponent(region, <<"b", "c">>, TRUE, 1),
                        TextComponent(region, <<"b", "c">>, FALSE, NoMaxLength)} :
         comps = [c \in CompIds |-> IF c = "c1" THEN c1 ELSE RectangleComponent(Region2)]

NextCanvas ==
  \/ \E visible \in BOOLEAN : SetVisible("c1", visible)
  \/ \E region \in CanvasRegions : SetRegion("c1", region)
  \/ \E color \in BackgroundColors : SetBackgroundColor("c1", color)
  \/ \E color \in Colors : RectSetColor("c1", color)
  \/ \E fill \in BOOLEAN : RectSetFill("c1", fill)
  \/ \E end \in {Position(1, 1), Position(0, 0)} : LineSetPoints("c1", Position(0, 0), end)
  \/ \E rel_x \in {0, 1}, color \in Colors : SetPixel("c1", rel_x, 0, color)
  \/ ClearPixels("c1")
  \/ \E pixel_data \in {<<>>, << <<1, 0, "white">>, <<2, 0, "red">> >>,
                          << <<0, 0, "white">>, <<0, 0, "red">> >>} :
       SetPixels("c1", pixel_data)
  \/ \E align \in {"left", "right"} : TextSetAlign("c1", align)
  \/ \E text \in Texts, animation \in CanvasAnimations :
       /\ comps["c1"].kind = "text" /\ ~comps["c1"].is_animating
       /\ SetText("c1", text, animation, 3)
  \/ UpdateAnimation("c1")
  \/ \E bdf_font \in BOOLEAN : RenderComponent("c1", bdf_font)
  \/ GetPixels("c1")

SpecCanvas == InitCanvas /\ [][NextCanvas]_vars

\* =================================================== crowding behaviours
\* One Crowding component, with and without a font, constructed with and
\* set to values inside and outside 0..5.
CrowdingValues == -1..7

InitCrowding ==
  /\ InitScreen
  /\ \E region \in {Region(0, 0, 4, 1), Region(0, 0, 1, 1)}, font \in BOOLEAN,
        value \in CrowdingValues :
       comps = [c \in CompIds |-> IF c = "c1" THEN CrowdingComponent(region, font, value)
                                  ELSE RectangleComponent(Region2)]

NextCrowding ==
  \/ \E value \in CrowdingValues : SetValue("c1", value)
  \/ \E color \in {"amber", "red"} : SetLevelColor("c1", 3, color)
  \/ \E color \in {"darkgrey", "grey"} : SetInactiveColor("c1", color)
  \/ \E align \in {"center", "left"} : CrowdingSetAlign("c1", align)
  \/ RenderComponent("c1", TRUE)
  \/ GetPixels("c1")

SpecCrowding == InitCrowding /\ [][NextCrowding]_vars

\* ===================================================== border behaviours
\* One Border over a region of every size up to MaxSide x MaxSide, or the
\* 96 x 48 panel with 4 dashes of 8 pixels at speed 2; rendered, enumerated,
\* hidden and shown.
MaxSide == 3

BorderRegions ==
  {Region(x, 0, width, height) : x \in {0, 1}, width \in 0..MaxSide, height \in 0..MaxSide}

InitBorder ==
  /\ InitScreen
  /\ \E c1 \in {BorderComponent(region, num_dashes, dash_length, 1) :
                   region \in BorderRegions, num_dashes \in {1, 2}, dash_length \in {1, 2}}
                \cup {BorderComponent(Region(0, 0, 96, 48), 4, 8, 2)} :
       comps = [c \in CompIds |-> IF c = "c1" THEN c1 ELSE RectangleComponent(Region2)]

NextBorder ==
  \/ \E visible \in BOOLEAN : SetVisible("c1", visible)
  \/ \E speed \in {1, 2} : SetSpeed("c1", speed)
  \/ ResetAnimation("c1")
  \/ RenderComponent("c1", TRUE)
  \/ GetPixels("c1")

SpecBorder == InitBorder /\ [][NextBorder]_vars

\* =================================================== arrivals behaviours
\* The shared arrivals of two lines, set and rotated by the schedules.
MaxArrivals == 3

Arrivals == {"a1", "a2", "a3"}
LineIds == {"l1", "l2"}

ArrivalLists ==
  UNION {[1..n -> Arrivals] : n \in 0..MaxArrivals}

InitArrivals ==
  /\ InitScreen
  /\ comps = [c \in CompIds |-> RectangleComponent(Region2)]

NextArrivals ==
  \/ \E list \in ArrivalLists : SetArrivals("l1", list)
  \/ \E list \in {<<>>, <<"a2", "a1">>} : SetArrivals("l2", list)
  \/ \E line_id \in LineIds : GetNextArrival(line_id)

SpecArrivals == InitArrivals /\ [][NextArrivals]_vars

\* ======================================================= line behaviours
\* One Line constructed between any two points of a grid around the origin,
\* re-pointed across a corner of the panel, rendered and listed.
MaxCoord == 2

LineEnds == {Position(x, y) : x \in -1..MaxCoord, y \in -1..MaxCoord}
PanelEnds == {Position(0, 0), Position(23, 11), Position(23, 0), Position(3, 11)}

InitLine ==
  /\ InitScreen
  /\ \E start \in LineEnds, end \in LineEnds :
       comps = [c \in CompIds |-> IF c = "c1" THEN LineComponent(start, end)
                                  ELSE RectangleComponent(Region2)]

NextLine ==
  \/ \E visible \in BOOLEAN : SetVisible("c1", visible)
  \/ \E color \in Colors : LineSetColor("c1", color)
  \/ \E start \in PanelEnds, end \in PanelEnds : LineSetPoints("c1", start, end)
  \/ RenderComponent("c1", TRUE)
  \/ GetPixels("c1")

SpecLine == InitLine /\ [][NextLine]_vars

\* ================================================== placement behaviours
\* A rectangle or a line constructed inside the screen, registered with or
\* without a layout region, then moved by set_region, set_points or
\* update_component_region.
MovedRegions == {Region1, SmallRegion, Region(3, 0, 2, 1), Region(0, 1, 2, 2)}

InitPlacement ==
  /\ InitScreen
  /\ \E c1 \in {RectangleComponent(Region1),
                 LineComponent(Position(0, 0), Position(1, 0))} :
       comps = [c \in CompIds |-> IF c = "c1" THEN c1 ELSE RectangleComponent(Region2)]

NextPlacement ==
  \/ CreateLayout(0)
  \/ DefineRegion("r", Region(1, 0, 2, 1))
  \/ \E c \in CompIds, region_name \in {None, "r"} : AddComponent(NameOf(c), c, region_name)
  \/ \E name \in Names : RemoveComponent(name)
  \/ \E region \in MovedRegions : SetRegion("c1", region)
  \/ \E end \in {Position(1, 0), Position(4, 1)} : LineSetPoints("c1", Position(0, 0), end)
  \/ \E region_name \in {"r", "full"} : UpdateComponentRegion("n1", region_name)

SpecPlacement == InitPlacement /\ [][NextPlacement]_vars

\* ---- a render pass in the compositor thread, statement by statement,
\* while the schedulers' threads call setters on the registered component
InitPass ==
  /\ threads = NoThreads
  /\ pass = NoPass
  /\ arrivals = <<>>
  /\ components = [n \in {"n1"} |-> "c1"]
  /\ layout = NoLayout
  /\ full_redraw = TRUE
  /\ back = 0
  /\ buffers = [b \in 0..1 |-> [c \in CompIds |-> Blank]]
  /\ last = Log("add_component", "c1", FALSE, {}, FALSE, FALSE, "none")
  /\ \E c1 \in Constructed(Region1) :
       /\ comps = [c \in CompIds |-> IF c = "c1" THEN c1 ELSE RectangleComponent(Region2)]
       /\ anim = [c \in CompIds |-> NoAnim]

NextPass ==
  \/ BeginPass("render", TRUE)
  \/ BeginPass("update", FALSE)
  \/ \E c \in CompIds : PassRender(c)
  \/ PassFlags
  \/ PassMarkClean
  \/ EndPass
  \/ MarkDirty("c1")
  \/ \E visible \in BOOLEAN : SetVisible("c1", visible)
  \/ \E color \in Colors : RectSetColor("c1", color)
  \/ \E color \in Colors : LineSetColor("c1", color)
  \/ \E animation \in {None, "push"} : SetText("c1", <<"b">>, animation, 1)
  \/ \E value \in {3, 7} : SetValue("c1", value)

SpecPass == InitPass /\ [][NextPass]_vars

\* ================================================================ claims
Passes == {"render", "render_noclear", "update"}

\* a Border, or a Text that is animating
Animated(c) == c.kind = "border" \/ (c.kind = "text" /\ c.is_animating)

\* C1: a render pass that cleared the canvas rendered every visible
\* registered component; a pass that did not clear rendered exactly the
\* visible registered components that were dirty.
C1_ClearingPassRendersAll ==
  [][last'.op \in Passes =>
       IF last'.cleared
       THEN last'.rendered = {c \in AllComponents : comps[c].visible}
       ELSE last'.rendered = {c \in AllComponents : comps[c].visible /\ is_dirty(comps[c])}]_vars

\* C2: the frame a render pass puts on display shows, for every visible
\* registered component, what that component currently draws.
C2_DisplayedFrameIsCurrent ==
  last.op \in Passes =>
    \A c \in AllComponents : comps[c].visible => buffers[front][c] = Shown(comps[c])

\* C3: an Update() that directly follows Render(clear=true) renders only
\* animated components (a Border, a Text that is animating).
C3_UpdateAfterRenderDrawsOnlyAnimated ==
  [][(last.op = "render" /\ last'.op = "update") =>
       \A c \in last'.rendered : Animated(comps[c])]_vars

\* C4: after a set_text with an animation and duration D, fewer than D
\* update_animation ticks leave the component animating with the old text
\* committed; exactly D ticks leave it not animating with the new text.
C4_AnimationTakesExactlyDurationTicks ==
  \A c \in CompIds :
    anim[c].mode = "animated" =>
      /\ (anim[c].ticks < anim[c].duration =>
            comps[c].is_animating /\ comps[c].text = anim[c].prev)
      /\ (anim[c].ticks = anim[c].duration =>
            ~comps[c].is_animating /\ comps[c].text = anim[c].target)

\* C5: a setter called with the value the component already has does not
\* call mark_dirty and does not turn is_dirty() from false to true.
C5_SettersAreIdempotent ==
  [][last'.same =>
       /\ ~last'.marked
       /\ (is_dirty(comps'[last'.target]) => is_dirty(comps[last'.target]))]_vars

\* C6: after mark_dirty(), a base mutator that changed the value, or
\* Screen.mark_all_dirty(), is_dirty() is true, and is_dirty() stays true
\* until the compositor renders the component.
C6_DirtyUntilRendered ==
  /\ [](/\ ((last.op \in {"mark_dirty", "set_visible", "set_region",
                            "set_background_color"} /\ last.marked)
               => is_dirty(comps[last.target]))
         /\ (last.op = "mark_all_dirty" =>
               \A c \in AllComponents : is_dirty(comps[c])))
  /\ [][\A c \in CompIds :
          (is_dirty(comps[c]) /\ c \notin last'.rendered) => is_dirty(comps'[c])]_vars

\* C7: when a render pass has finished, every component it rendered is
\* not dirty, unless it is a Border or a Text that is still animating.
C7_RenderedComponentsAreClean ==
  last.op \in Passes =>
    \A c \in last.rendered : Animated(comps[c]) \/ ~is_dirty(comps[c])

\* C8: a set_text with an animation that arrives while an animation is in
\* flight restarts it: progress 0, new_text the new text, old_text the text
\* committed at the call, no timer of the replaced animation pending; and
\* whatever an update_animation tick commits is the text of the most recent
\* set_text, never that of the replaced animation.
C8_SetTextReplacesAnimation ==
  [][\A c \in CompIds :
       /\ ((last'.op = "set_text" /\ last'.target = c /\ comps[c].is_animating
             /\ anim'[c].mode = "animated" /\ anim'[c].ticks = 0) =>
              /\ comps'[c].is_animating
              /\ comps'[c].animation_progress = FZero
              /\ comps'[c].new_text = anim'[c].target
              /\ comps'[c].old_text = comps[c].text
              /\ comps'[c].text = comps[c].text
              /\ comps'[c].animation_duration = anim'[c].duration
              /\ comps'[c].animation_timer = None)
       /\ ((last'.op = "update_animation" /\ last'.target = c
             /\ comps'[c].text # comps[c].text) =>
              comps'[c].text = anim[c].target)]_vars

\* an interrupted animation was replaced by one towards another text, which
\* the ticks have completed
C8_Witness ==
  /\ last.op = "update_animation"
  /\ anim["c1"].mode = "animated" /\ anim["c1"].interrupted
  /\ anim["c1"].replaced # anim["c1"].target
  /\ ~comps["c1"].is_animating
  /\ comps["c1"].text = anim["c1"].target

\* C9: set_text with the committed text while not animating changes no
\* field of the component (text, animation state, dirty state, timer),
\* calls neither mark_dirty nor _sync, and returns normally.
C9_SetTextSameTextIsNoOp ==
  [][\A c \in CompIds :
       (last'.op = "set_text" /\ last'.target = c /\ last'.same
        /\ ~comps[c].is_animating) =>
         /\ comps'[c] = comps[c]
         /\ is_dirty(comps'[c]) = is_dirty(comps[c])
         /\ ~last'.marked
         /\ last'.exc = "none"]_vars

\* set_text was called with the committed text on a clean, static component
C9_Witness ==
  /\ last.op = "set_text" /\ last.same /\ last.exc = "none"
  /\ ~comps["c1"].is_animating
  /\ ~is_dirty(comps["c1"])

\* C10: a set_text without animation that is not a no-op leaves the text
\* committed, the component static, no timer pending and is_dirty() true;
\* no later update_animation tick changes the committed text.
C10_InstantSetText ==
  [][\A c \in CompIds :
       /\ ((last'.op = "set_text" /\ last'.target = c
             /\ anim'[c].mode = "instant"
             /\ (comps[c].is_animating \/ comps[c].text # anim'[c].target)) =>
              /\ comps'[c].text = anim'[c].target
              /\ ~comps'[c].is_animating
              /\ comps'[c].animation_type = "none"
              /\ comps'[c].animation_timer = None
              /\ is_dirty(comps'[c]))
       /\ ((anim[c].mode = "instant" /\ last'.op = "update_animation") =>
              comps'[c].text = anim[c].target)]_vars

\* an instant set_text cancelled an animation in flight and a tick followed
C10_Witness ==
  /\ last.op = "update_animation"
  /\ anim["c1"].mode = "instant" /\ anim["c1"].interrupted
  /\ anim["c1"].replaced # anim["c1"].target
  /\ comps["c1"].text = anim["c1"].target

\* C11: is_dirty() is true whenever a Text is animating and always for a
\* Border, whatever mark_clean() calls came before; so every render pass
\* selects (and, when it is visible, renders) a registered animated component.
C11_AnimatedAlwaysDirty ==
  /\ [](\A c \in CompIds : Animated(comps[c]) => is_dirty(comps[c]))
  /\ [][\A c \in AllComponents :
          (last'.op \in Passes /\ Animated(comps[c]) /\ comps[c].visible) =>
            c \in last'.rendered]_vars

\* a dirty-only pass rendered an animated component that an earlier pass
\* had already rendered and marked clean
C11_Witness ==
  /\ last.op = "update" /\ ~last.cleared
  /\ "c1" \in last.rendered
  /\ Animated(comps["c1"])
  /\ ~comps["c1"].dirty

\* C12: the progress of a Text lies in [0, 1]; an update_animation tick on
\* an animating Text never decreases it; while the tick leaves the Text
\* animating, progress is below 1 and the committed text is unchanged (the
\* old text); the tick that reaches 1 clamps progress to 1.0, commits
\* new_text and resets the animation type to none.
C12_ProgressMonotoneUntilCommit ==
  /\ [](\A c \in CompIds : comps[c].kind = "text" =>
            /\ FLe(FZero, comps[c].animation_progress)
            /\ FLe(comps[c].animation_progress, FOne))
  /\ [][\A c \in CompIds :
          (last'.op = "update_animation" /\ last'.target = c
           /\ comps[c].is_animating) =>
            /\ FLe(comps[c].animation_progress, comps'[c].animation_progress)
            /\ IF comps'[c].is_animating
               THEN /\ ~FGeOne(comps'[c].animation_progress)
                    /\ comps'[c].text = comps[c].text
                    /\ comps'[c].text = comps[c].old_text
               ELSE /\ FGeOne(AdvanceProgress(comps[c]))
                    /\ comps'[c].animation_progress = FOne
                    /\ comps'[c].text = comps[c].new_text
                    /\ comps'[c].animation_type = "none"]_vars

\* an animation of several ticks has just completed
C12_Witness ==
  /\ last.op = "update_animation"
  /\ anim["c1"].mode = "animated" /\ anim["c1"].ticks >= 3
  /\ ~comps["c1"].is_animating
  /\ comps["c1"].animation_progress = FOne
  /\ comps["c1"].text = anim["c1"].target

\* the object after set_text then update_animation, and after
\* update_animation then set_text, each run alone from the state at the start
SetTextThenUpdate ==
  update_animation(set_text(threads.start, threads.text, threads.animation,
                            threads.duration).c).c

UpdateThenSetText ==
  set_text(update_animation(threads.start).c, threads.text, threads.animation,
           threads.duration).c

\* C13: when a set_text call and an update_animation call on the same Text
\* have run in two threads, the object is in the state one of the two
\* serial orders of the calls produces.
C13_SetTextAtomicWithTick ==
  CallsReturned => comps["c1"] \in {SetTextThenUpdate, UpdateThenSetText}

\* region lies fully within a width x height area
Within(region, width, height) ==
  /\ 0 <= region.x /\ 0 <= region.y
  /\ region.x + region.width <= width
  /\ region.y + region.height <= height

\* C14: Screen.add_component of a component whose region does not lie fully
\* within the screen (negative origin included) raises and registers nothing.
C14_AddComponentRejectsOutOfScreen ==
  [][(last'.op = "add_component"
      /\ ~Within(comps[last'.target].region, ScreenWidth, ScreenHeight)) =>
        /\ last'.exc # "none"
        /\ components' = components
        /\ layout' = layout]_vars

\* C15: no component object is held by both the layout's registry and the
\* screen's standalone registry.
C15_ExactlyOneRegistry ==
  Values(layout.components) \cap Values(components) = {}

\* the call that last' records named a region or a component that did not
\* exist when it was made
NamesUnknown ==
  LET regions == DOMAIN layout.regions
      registered == DOMAIN layout.components
  IN  \/ /\ last'.op = "layout_add_component"
         /\ last'.region_name # None /\ last'.region_name \notin regions
      \/ /\ last'.op = "add_component"
         /\ last'.region_name # None
         /\ (~layout.present \/ last'.region_name \notin regions)
      \/ /\ last'.op = "update_component_region"
         /\ (last'.name \notin registered \/ last'.region_name \notin regions)
      \/ /\ last'.op \in {"split_horizontal", "split_vertical"}
         /\ last'.name \notin regions
      \/ /\ last'.op = "layout_remove_component"
         /\ last'.name \notin registered
      \/ /\ last'.op = "remove_component"
         /\ last'.name \notin registered \cup DOMAIN components

\* C17: a call that names a region or a component that does not exist
\* raises and changes no state.
C17_UnknownNamesFail ==
  [][NamesUnknown =>
       /\ last'.exc # "none"
       /\ UNCHANGED <<comps, components, layout, full_redraw>>]_vars

\* C16: every region of the layout's region map lies within the layout,
\* and a define_region of a region that does not raises and stores nothing.
C16_RegionsWithinLayout ==
  /\ [](\A n \in DOMAIN layout.regions :
          Within(layout.regions[n], layout.width, layout.height))
  /\ [][(last'.op = "define_region"
         /\ ~Within(last'.region, layout.width, layout.height)) =>
           /\ last'.exc # "none"
           /\ layout' = layout]_vars

\* a split stored its first sub-region and raised on a later one
C16_Witness ==
  /\ last.op \in {"split_horizontal", "split_vertical"}
  /\ last.exc = "ValueError"
  /\ SubName(last.name, 0) \in DOMAIN layout.regions

\* C18: after a successful add_component, a remove_component or a clear,
\* _full_redraw is set; a render pass that starts with it set clears the
\* whole canvas (what it does not draw is blank afterwards) and leaves it
\* reset; an update() that starts with it reset clears nothing (what it
\* does not draw is left on the canvas as it was).
C18_FullRedrawAfterStructuralChange ==
  /\ []((last.op \in {"add_component", "remove_component", "clear"}
         /\ last.exc = "none") => full_redraw)
  /\ [][last'.op \in Passes =>
          /\ (full_redraw =>
                /\ last'.cleared
                /\ ~full_redraw'
                /\ \A c \in CompIds \ last'.rendered : buffers'[back][c] = Blank)
          /\ ((~full_redraw /\ last'.op = "update") =>
                /\ ~last'.cleared
                /\ ~full_redraw'
                /\ \A c \in CompIds \ last'.rendered :
                     buffers'[back][c] = buffers[back][c])]_vars

\* an update() cleared the canvas because the flag was pending, erasing a
\* registered component that it did not redraw
C18_Witness ==
  /\ last.op = "update" /\ last.cleared /\ ~full_redraw
  /\ \E c \in AllComponents : c \notin last.rendered /\ buffers[front][c] = Blank

\* the sub-regions a split of region name into k equal parts must produce
EqualParts(name, k, horizontal) ==
  LET region == layout.regions[name]
      part == (IF horizontal THEN region.width ELSE region.height) \div k
  IN  [i \in 0..(k - 1) |->
         IF horizontal THEN Region(region.x + i * part, region.y, part, region.height)
         ELSE Region(region.x, region.y + i * part, region.width, part)]

\* C19: a split of an existing region of extent W >= 0 into k flex entries
\* and nothing else, k dividing W, returns k names "{name}_{i}" whose
\* regions are adjacent, each W/k long, from the region's start to its end.
C19_EvenFlexSplit ==
  (/\ last.op \in {"split_horizontal", "split_vertical"}
   /\ last.name \in DOMAIN layout.regions
   /\ last.sizes # <<>>
   /\ NumFlex(last.sizes) = Len(last.sizes)) =>
    LET horizontal == last.op = "split_horizontal"
        region == layout.regions[last.name]
        W == IF horizontal THEN region.width ELSE region.height
        k == Len(last.sizes)
    IN  (W >= 0 /\ W % k = 0) =>
          /\ last.exc = "none"
          /\ last.returned = [i \in 1..k |-> SubName(last.name, i - 1)]
          /\ \A i \in 0..(k - 1) :
               layout.regions[SubName(last.name, i)] =
                 EqualParts(last.name, k, horizontal)[i]
          /\ k * (W \div k) = W

\* a region of even, positive width was split in two
C19_Witness ==
  /\ last.op = "split_horizontal" /\ last.exc = "none"
  /\ last.sizes = <<-1, -1>>
  /\ layout.regions[last.name].width = 2
  /\ layout.regions[SubName(last.name, 1)].x = layout.regions[last.name].x + 1

\* the pixels of two regions intersect (along both axes)
Overlap(a, b) ==
  /\ Max(a.x, b.x) < Min(a.x + a.width, b.x + b.width)
  /\ Max(a.y, b.y) < Min(a.y + a.height, b.y + b.height)

\* C20: a split that succeeds returns the names "{name}_{i}" in call order;
\* the first sub-region starts at the parent's origin, each next one where
\* the previous one ends, no two of them overlap, and a flex entry is
\* floor(remaining / number of flex entries) long.
C20_SplitContiguousNonOverlapping ==
  (last.op \in {"split_horizontal", "split_vertical"} /\ last.exc = "none") =>
    LET horizontal == last.op = "split_horizontal"
        parent == layout.regions[last.name]
        N == Len(last.sizes)
        sub(i) == layout.regions[SubName(last.name, i)]
        start(r) == IF horizontal THEN r.x ELSE r.y
        extent(r) == IF horizontal THEN r.width ELSE r.height
    IN  /\ last.returned = [i \in 1..N |-> SubName(last.name, i - 1)]
        /\ N > 0 => start(sub(0)) = start(parent)
        /\ \A i \in 1..(N - 1) : start(sub(i)) = start(sub(i - 1)) + extent(sub(i - 1))
        /\ \A i \in 0..(N - 1) :
             extent(sub(i)) =
               IF last.sizes[i + 1] < 0
               THEN (extent(parent) - SumFixed(last.sizes)) \div NumFlex(last.sizes)
               ELSE last.sizes[i + 1]
        /\ \A i, j \in 0..(N - 1) : i # j => ~Overlap(sub(i), sub(j))

\* C22: add_component(name, component, region_name) with region_name a
\* defined region of the layout, called on the layout or on a screen that
\* has the layout, returns with the component's region equal to that region
\* and the component stored under name, whatever its region was before.
C22_AddComponentBindsRegion ==
  [][(/\ last'.op \in {"add_component", "layout_add_component"}
      /\ layout.present
      /\ last'.region_name \in DOMAIN layout.regions) =>
        /\ last'.exc = "none"
        /\ comps'[last'.target].region = layout.regions[last'.region_name]
        /\ last'.name \in DOMAIN layout'.components
        /\ layout'.components[last'.name] = last'.target]_vars

\* the panel keeps a SetPixel call: its coordinate lies on the panel
OnCanvas(w) ==
  /\ 0 <= w[1] /\ w[1] < ScreenWidth
  /\ 0 <= w[2] /\ w[2] < ScreenHeight

\* the pixels of the panel that the last render wrote outside the region of
\* the component it rendered
WrittenOutside ==
  {k \in DOMAIN last.written :
     /\ OnCanvas(last.written[k])
     /\ ~contains(comps[last.target].region, last.written[k][1], last.written[k][2])}

\* C21: a render of a component, of any variant and in any state (static
\* text, every animation frame, crowding icons wider than the region),
\* writes no pixel of the panel outside the component's region.
C21_RenderStaysInsideRegion ==
  last.op = "render_component" => WrittenOutside = {}

\* the value a Crowding component must store when handed v
Clamped(v) == IF v < 0 THEN 0 ELSE IF v > 5 THEN 5 ELSE v

\* C23: a Crowding component constructed with any integer stores it clamped
\* to 0..5; the stored value always lies in 0..5; after set_value(v) it is v
\* clamped to 0..5; and a set_value whose clamped argument is the stored
\* value changes nothing.
C23_ValueClamped ==
  /\ \A v \in CrowdingValues :
       CrowdingComponent(Region1, TRUE, v).value = Clamped(v)
  /\ [](comps["c1"].value \in 0..5)
  /\ [][last'.op = "set_value" =>
          /\ comps'["c1"].value = Clamped(last'.value)
          /\ (Clamped(last'.value) = comps["c1"].value =>
                comps' = comps /\ ~last'.marked /\ last'.exc = "none")]_vars

\* set_value(7) on a component that held less than 5 stored 5
C23_Witness ==
  last.op = "set_value" /\ last.value = 7 /\ last.marked /\ comps["c1"].value = 5

\* the colours in which the last render drew the pixels of icon i (1..5):
\* the icons follow the clearing of the region, one glyph each
IconColors(i) ==
  LET cleared == Len(Cells(comps[last.target].region))
      glyph == FontWidth * FontHeight
  IN  {last.written[k][3] : k \in (cleared + (i - 1) * glyph + 1)..(cleared + i * glyph)}

\* a render of a visible Crowding component that has a font
CrowdingDrawn ==
  /\ last.op = "render_component"
  /\ comps[last.target].kind = "crowding"
  /\ comps[last.target].visible /\ comps[last.target].font

\* C24: a render of a Crowding component with value v in 0..5 draws icon i
\* in the colour of level v of its level-colour table when i <= v and in
\* the inactive colour otherwise: all five inactive when v = 0; icons 1-3
\* amber (the default level-3 colour) and 4-5 inactive when v = 3 and the
\* table is the default one.
C24_IconColours ==
  CrowdingDrawn =>
    LET c == comps[last.target]
    IN  /\ Len(last.written) = Len(Cells(c.region)) + 5 * FontWidth * FontHeight
        /\ \A i \in 1..5 :
             IconColors(i) = {IF i <= c.value THEN c.level_colors[c.value]
                              ELSE c.inactive_color}
        /\ c.value = 0 => \A i \in 1..5 : IconColors(i) = {c.inactive_color}
        /\ (c.value = 3 /\ c.level_colors = DEFAULT_LEVEL_COLORS) =>
             /\ \A i \in 1..3 : IconColors(i) = {"amber"}
             /\ \A i \in 4..5 : IconColors(i) = {c.inactive_color}

\* a component set to 3 was drawn with the default table
C24_Witness ==
  /\ CrowdingDrawn
  /\ comps[last.target].value = 3
  /\ comps[last.target].level_colors = DEFAULT_LEVEL_COLORS
  /\ IconColors(3) = {"amber"} /\ IconColors(4) = {"darkgrey"}

\* C25: get_pixels() leaves every field of the component as it was (dirty
\* flag, Border frame counter, Text animation state and caches), returns the
\* empty list when the component is not visible, and returns the same list
\* when called again.
C25_GetPixelsIsPure ==
  [][last'.op = "get_pixels" =>
       /\ comps' = comps
       /\ (~comps[last'.target].visible => last'.pixels = <<>>)
       /\ last'.pixels = get_pixels(comps'[last'.target]).pixels]_vars

\* a Border that has been rendered was enumerated, and its dashes listed
C25_Witness ==
  /\ last.op = "get_pixels"
  /\ comps[last.target].kind = "border"
  /\ comps[last.target].frame > 0
  /\ last.pixels # <<>>

\* the pixels on the perimeter of region
Perimeter(region) ==
  {<<x, y>> : x \in region.x..(region.x + region.width - 1),
              y \in region.y..(region.y + region.height - 1)}
  \ {<<x, y>> : x \in (region.x + 1)..(region.x + region.width - 2),
                y \in (region.y + 1)..(region.y + region.height - 2)}

\* the perimeter pixel that follows p clockwise: right along the top edge,
\* down the right edge, left along the bottom edge, up the left edge
ClockwiseNext(region, p) ==
  LET right == region.x + region.width - 1
      bottom == region.y + region.height - 1
  IN  IF p[2] = region.y /\ p[1] < right THEN <<p[1] + 1, p[2]>>
      ELSE IF p[1] = right /\ p[2] < bottom THEN <<p[1], p[2] + 1>>
      ELSE IF p[2] = bottom /\ p[1] > region.x THEN <<p[1] - 1, p[2]>>
      ELSE <<p[1], p[2] - 1>>

\* C26: the perimeter list of a Border over a region at least one pixel
\* wide and high holds every perimeter pixel of the region exactly once, in
\* clockwise order from the top-left corner.
C26_PerimeterOnceClockwise ==
  LET c == comps["c1"]
      positions == c.border_positions
  IN  (c.kind = "border" /\ c.region.width >= 1 /\ c.region.height >= 1) =>
        /\ {positions[k] : k \in DOMAIN positions} = Perimeter(c.region)
        /\ \A j, k \in DOMAIN positions : positions[j] = positions[k] => j = k
        /\ positions[1] = <<c.region.x, c.region.y>>
        /\ \A k \in 1..(Len(positions) - 1) :
             positions[k + 1] = ClockwiseNext(c.region, positions[k])

\* the step is a render of the Border c1, visible when it is rendered
BorderTick ==
  /\ last'.op = "render_component"
  /\ comps["c1"].kind = "border" /\ comps["c1"].visible

\* the coordinate at which the render of the step drew the first pixel of
\* dash d (0-based): the dashes are the last writes of the render
FirstOfDash(d) ==
  LET c == comps'["c1"]
      w == last'.written[Len(last'.written) - (c.num_dashes - d) * c.dash_length + 1]
  IN  <<w[1], w[2]>>

DuplicateFree(data) ==
  \A i, j \in DOMAIN data :
     (data[i][1] = data[j][1] /\ data[i][2] = data[j][2]) => i = j

\* the entries of the pixel list that are not at (x, y), in order
EntriesElsewhere(data, x, y) ==
  SelectSeq(data, LAMBDA e : ~(e[1] = x /\ e[2] = y))

\* C28: on a PixelSet whose list holds no coordinate twice, set_pixel leaves
\* at most one entry per coordinate, the entry of the written coordinate
\* carries the colour just written, and every other entry is as it was.
C28_SetPixelLastWriteWins ==
  [][(last'.op = "set_pixel" /\ DuplicateFree(comps["c1"].pixel_data)) =>
       LET old == comps["c1"].pixel_data
           new == comps'["c1"].pixel_data
           p == last'.pixel
       IN  /\ DuplicateFree(new)
           /\ \E i \in DOMAIN new : new[i] = p
           /\ \A i \in DOMAIN new :
                (new[i][1] = p[1] /\ new[i][2] = p[2]) => new[i][3] = p[3]
           /\ EntriesElsewhere(new, p[1], p[2]) = EntriesElsewhere(old, p[1], p[2])]_vars

\* set_pixel has overwritten the white entry at (1, 0) next to the one at (2, 0)
C28_Witness ==
  /\ last.op = "set_pixel"
  /\ last.pixel = <<1, 0, "red">>
  /\ comps["c1"].pixel_data = << <<2, 0, "red">>, <<1, 0, "red">> >>

\* the last step rendered c1, a Text or a Crowding without a font
FontlessRendered ==
  /\ last.op = "render_component"
  /\ comps["c1"].kind \in {"text", "crowding"}
  /\ ~comps["c1"].font

\* C29: rendering a Text, static or in any animation state, or a Crowding
\* that has no font raises no error and draws no glyph or icon pixel: all
\* it writes is the clearing of its region, and nothing when it is hidden.
C29_NoFontDrawsNothing ==
  FontlessRendered =>
    /\ last.exc = "none"
    /\ last.written = IF comps["c1"].visible THEN ClearRegion(comps["c1"]) ELSE <<>>

\* a visible Text without a font was rendered in the middle of an animation
C29_Witness ==
  /\ FontlessRendered
  /\ comps["c1"].kind = "text" /\ comps["c1"].visible
  /\ comps["c1"].is_animating /\ comps["c1"].new_text # <<>>
  /\ comps["c1"].animation_type = "push"
  /\ last.written = ClearRegion(comps["c1"])

\* the Text and Crowding setters that end with self._sync() when they change
\* a value
SyncingSetters ==
  {"set_text", "set_color", "set_vertical_align", "set_value", "set_inactive_color"}

\* C30: a Text or Crowding setter that changes a value returns normally
\* after syncing the display, and so does every update_animation tick of a
\* running animation.
C30_ChangingSetterReturns ==
  [][LET c == comps["c1"]
     IN  c.kind \in {"text", "crowding"} =>
           /\ (last'.op \in SyncingSetters /\ comps'["c1"] # c) => last'.exc = "none"
           /\ (last'.op = "update_animation" /\ c.is_animating) => last'.exc = "none"]_vars

\* the list with its first k elements moved to the end, in order
Rotated(list, k) ==
  [i \in 1..Len(list) |-> list[((i - 1 + k) % Len(list)) + 1]]

\* the number of entries of list equal to a
Count(list, a) == Cardinality({i \in DOMAIN list : list[i] = a})

\* C31: get_next_arrival returns the head of the line's list and moves it
\* to the tail, keeping the length and the multiset of arrivals; the k-th
\* of consecutive calls returns the k-th arrival of the list the calls
\* started from, and after as many calls as the list is long every arrival
\* was returned once in list order and the list is in its original order;
\* on an empty list it returns None and changes nothing.
C31_GetNextArrivalRotates ==
  [][(last'.op = "get_next_arrival" /\ last'.line_id \in DOMAIN arrivals) =>
       LET line_id == last'.line_id
           old == arrivals[line_id]
           new == arrivals'[line_id]
           run == last'.run
           k == Len(run.returned)
       IN  /\ last'.exc = "none"
           /\ \A other \in DOMAIN arrivals \ {line_id} : arrivals'[other] = arrivals[other]
           /\ DOMAIN arrivals' = DOMAIN arrivals
           /\ old = <<>> => (last'.arrival = None /\ new = old)
           /\ old # <<>> =>
                /\ last'.arrival = Head(old)
                /\ new = Append(Tail(old), Head(old))
                /\ Len(new) = Len(old)
                /\ \A a \in Arrivals : Count(new, a) = Count(old, a)
                /\ run.returned = SubSeq(run.start, 1, k)
                /\ new = Rotated(run.start, k)
                /\ k = Len(run.start) => (run.returned = run.start /\ new = run.start)]_vars

\* three consecutive calls on a three-element list have returned it in order
C31_Witness ==
  /\ last.op = "get_next_arrival"
  /\ last.run.start = <<"a1", "a2", "a3">>
  /\ last.run.returned = <<"a1", "a2", "a3">>
  /\ arrivals[last.line_id] = <<"a1", "a2", "a3">>

\* C38: a Text component is animating exactly when its animation type is
\* not NONE, and whenever it is not animating the committed text is the
\* text, after truncation, of the most recent set_text call.
C38_AnimatingIffTypeSet ==
  LET c == comps["c1"]
  IN  c.kind = "text" =>
        /\ c.is_animating <=> c.animation_type # "none"
        /\ (~c.is_animating /\ anim["c1"].mode # "none") => c.text = anim["c1"].target
        /\ (~c.is_animating /\ last.op = "set_text") => c.text = last.trimmed

\* the tick that completed an animation committed a truncated text that
\* differs from the one shown before
C38_Witness ==
  /\ last.op = "update_animation"
  /\ ~comps["c1"].is_animating /\ comps["c1"].animation_type = "none"
  /\ anim["c1"].mode = "animated" /\ anim["c1"].prev # anim["c1"].target
  /\ comps["c1"].text = <<"b">> \o Ellipsis

\* the pixels the stepping loop of the Line c1 produced in the last step:
\* those drawn by render, or those listed by get_pixels
LinePixels == IF last.op = "get_pixels" THEN last.pixels ELSE last.written

\* the last step ran the stepping loop of the visible Line c1
LineWalked ==
  /\ last.op \in {"render_component", "get_pixels"}
  /\ comps["c1"].kind = "line" /\ comps["c1"].visible

\* C39: the stepping loop of a Line, in render and in get_pixels, ends for
\* every pair of integer endpoints after max(|dx|, |dy|) + 1 points, visits
\* the start point first and the end point last, and every point it visits
\* lies in the bounding box of the two endpoints.
C39_LineLoopTerminates ==
  LineWalked =>
    LET c == comps["c1"]
        pixels == LinePixels
        n == Len(pixels)
    IN  /\ n = Max(Abs(c.end.x - c.start.x), Abs(c.end.y - c.start.y)) + 1
        /\ <<pixels[1][1], pixels[1][2]>> = <<c.start.x, c.start.y>>
        /\ <<pixels[n][1], pixels[n][2]>> = <<c.end.x, c.end.y>>
        /\ \A k \in 1..n :
             /\ Min(c.start.x, c.end.x) <= pixels[k][1]
             /\ pixels[k][1] <= Max(c.start.x, c.end.x)
             /\ Min(c.start.y, c.end.y) <= pixels[k][2]
             /\ pixels[k][2] <= Max(c.start.y, c.end.y)

\* a line running down and to the left across the panel was listed
C39_Witness ==
  /\ LineWalked /\ last.op = "get_pixels"
  /\ comps["c1"].start = Position(23, 0) /\ comps["c1"].end = Position(3, 11)
  /\ Len(last.pixels) = 21

\* the region lies inside the screen
InsideScreen(region) ==
  /\ 0 <= region.x /\ 0 <= region.y
  /\ region.x + region.width <= ScreenWidth
  /\ region.y + region.height <= ScreenHeight

\* C35: every component registered with the screen has a region inside the
\* screen, also after set_region, set_points or update_component_region
\* was applied to it once registered.
C35_RegisteredInsideScreen ==
  \A c \in AllComponents : InsideScreen(comps[c].region)

\* C36: when split_horizontal or split_vertical raises, the layout's region
\* map is what it was before the call: no sub-region of the failed split is
\* defined and no region has been overwritten.
C36_FailedSplitLeavesRegions ==
  [][(last'.op \in {"split_horizontal", "split_vertical"} /\ last'.exc # "none") =>
       layout'.regions = layout.regions]_vars

\* C37: for every name, get_component returns the component that
\* get_all_components maps the name to, and None exactly when the name is
\* absent from it; and that component is one the render pass draws.
C37_GetComponentAgreesWithAll ==
  \A name \in Names \cup {"zz"} :
    /\ get_component(name) =
         (IF name \in DOMAIN get_all_components THEN get_all_components[name] ELSE None)
    /\ get_component(name) # None => get_component(name) \in AllComponents

\* the component is hidden and an earlier pass has drawn it
HiddenAfterDrawn(c) ==
  /\ c \in AllComponents /\ ~comps[c].visible
  /\ \E b \in DOMAIN buffers : buffers[b][c] # Blank

\* C34: a render pass (Update or Render) that finds a hidden component that
\* has been drawn leaves none of its pixels on the frame it displays and
\* leaves the component not dirty.
C34_HiddenComponentErased ==
  [][last'.op \in Passes =>
       \A c \in CompIds :
         HiddenAfterDrawn(c) =>
           /\ buffers'[1 - back'][c] = Blank
           /\ ~is_dirty(comps'[c])]_vars

\* C32: a mutation that lands while the compositor is inside a render pass
\* is not lost: when the pass has ended, every component it rendered either
\* is on the displayed frame with its current value or reports is_dirty().
C32_MutationDuringPassNotLost ==
  last.op \in Passes =>
    \A c \in last.rendered :
      buffers[front][c] = Shown(comps[c]) \/ is_dirty(comps[c])

====
